---- MODULE Spec2Model ----
(***************************************************************************)
(* A model of the GRBL WebSocket server (grbl_server.py): the serial       *)
(* protocol engine (GrblConnection), the broadcast hub (GrblServer), and   *)
(* the G-code streamer (FileStreamer).                                     *)
(*                                                                         *)
(* The server runs on one asyncio event loop, so a task gives up control   *)
(* only at an await that really suspends.  Every action below is the code  *)
(* a task runs between two such suspension points.                         *)
(*                                                                         *)
(* Positions are integers (millimetres); the code holds floats parsed from *)
(* the controller's decimal reports.                                       *)
(***************************************************************************)
EXTENDS Integers, Sequences, FiniteSets, TLC

\* ------------------------------------------------------------------------
\* Program constants
\* ------------------------------------------------------------------------
START_POS_TOLERANCE == 5
START_POS_MARGIN == 2
DEFAULT_WORK_MAX_Y == 400
RECOVERY_SAVE_INTERVAL == 100
DEFAULT_OVERRIDE == 100

\* _wait_idle, in milliseconds: the bound of its first loop and the sleep in
\* it, its timeout and the sleep of its second loop
LEAVE_IDLE_BOUND == 2000
LEAVE_IDLE_SLEEP == 50
WAIT_IDLE_TIMEOUT == 30000
WAIT_IDLE_SLEEP == 100

\* ------------------------------------------------------------------------
\* Bounds of the model
\* ------------------------------------------------------------------------
MaxParts == 2
MaxLines == 2
MaxLoops == 2
MaxWrites == 3
MaxDelay == 2

\* A key that a Python dict does not hold.
Absent == -1

VARIABLES
    status,         \* GrblConnection.status (MachineStatus)
    wco_cached,     \* GrblConnection.wco_cached
    settings,       \* GrblConnection.settings
    g28_pos,        \* GrblConnection.g28_pos
    motion,         \* the controller itself: whether a commanded move is still under way
    filename,       \* FileStreamer.filename
    lines,          \* FileStreamer.lines
    total_lines,    \* FileStreamer.total_lines
    current_line,   \* FileStreamer.current_line
    running,        \* FileStreamer.running
    paused,         \* FileStreamer.paused
    stop_flag,      \* FileStreamer.stop_flag
    loops,          \* the live _stream_loop tasks: how many are at each await
    flight,         \* the local `line` of the tasks that have sent it: how many hold each index
    run,            \* what the tasks have handed to send_command since the last accepted start
    recovery,       \* the content of recovery.txt
    ws_out,         \* the reply handle_message sent to the client for its last message
    start_call,     \* a file_start handler suspended inside start(): the reply it will send
    connected,      \* GrblConnection.connected
    wire,           \* the lines written to the serial port that the controller has yet to answer
    writes,         \* how many lines have been written to the serial port
    response_queue, \* GrblConnection.response_queue
    getters,        \* the send_command calls suspended in response_queue.get(), oldest first
    callers,        \* the tasks that call send_command: where each is, and what it was given
    read_loop,      \* the _read_loop task: where it is, and the line _handle_line is working on
    clients,        \* GrblServer.clients
    stalled,        \* the clients whose send() does not complete
    probe_tasks,    \* whether a broadcast task made by _parse_probe is still sending
    cancel_flag,    \* MacroEngine.cancel_flag
    wait_idle,      \* a macro's call of _wait_idle: where it is, and the time since it began
    macros,         \* the run_macro tasks: the macro of each, and the await it is at
    continue_event, \* MacroEngine.continue_event: whether it is set
    probe_work_z,   \* MacroEngine.probe_work_z
    set_z_done,     \* MacroEngine.set_z_done
    macro_running,  \* MacroEngine.running
    modal,          \* the controller's modes as the commands written leave them: $21, G90/G91
    last_probe,     \* the attribute last_probe of GrblConnection, as far as there is one
    chunk,          \* _read_loop's buffer: the complete lines it has yet to handle
    ready,          \* the event loop's queue of callbacks that are ready to run, oldest first
    pending,        \* the sends that the gather awaited by _read_loop still waits for
    sockets,        \* the messages written to each client's socket, in order
    emitted,        \* the messages in the order in which the protocol engine emitted them
    ser,            \* GrblConnection.ser: the serial object, or None
    read_task,      \* GrblConnection.read_task
    poll_task,      \* GrblConnection.poll_task
    tasks,          \* the tasks made by connect(): what each runs and whether it is alive
    handlers,       \* the handle_message calls of the clients: where each is in connect/disconnect
    link,           \* the bytes written to the serial link, each with the write it came from
    quiet,          \* whether disconnect() has returned and no connect() has opened the link since
    fixtures,       \* MacroEngine.fixtures
    gcode,          \* the lines of the program that analyze_gcode or check_collisions is given
    report,         \* what analyze_gcode or check_collisions returned, or what fixture_remove was asked
    announced       \* the broadcasts of the fixture handlers, in order

machineVars == <<status, wco_cached, settings, g28_pos, motion>>

streamVars == <<filename, lines, total_lines, current_line, running, paused,
                stop_flag, loops, flight, run, recovery>>

wsVars == <<ws_out, start_call>>

protoVars == <<connected, wire, writes, response_queue, getters, callers, read_loop>>

hubVars == <<clients, stalled, probe_tasks>>

macroVars == <<cancel_flag, wait_idle>>

engineVars == <<macros, continue_event, probe_work_z, set_z_done, macro_running, modal>>

checkVars == <<fixtures, gcode, report, announced>>

linkVars == <<last_probe, chunk, ready, pending, sockets, emitted, ser, read_task,
              poll_task, tasks, handlers, link, quiet, checkVars>>

vars == <<status, wco_cached, settings, g28_pos, motion, filename, lines,
          total_lines, current_line, running, paused, stop_flag, loops, flight, run,
          recovery, ws_out, start_call, connected, wire, writes, response_queue,
          getters, callers, read_loop, clients, stalled, probe_tasks, cancel_flag,
          wait_idle, macros, continue_event, probe_work_z, set_z_done, macro_running,
          modal,
          last_probe, chunk, ready, pending, sockets, emitted, ser, read_task,
          poll_task, tasks, handlers, link, quiet, fixtures, gcode, report, announced>>

\* ------------------------------------------------------------------------
\* Machine state and the status parser
\* ------------------------------------------------------------------------
Axes == {"x", "y", "z", "a"}

Pos(x, y, z, a) == [x |-> x, y |-> y, z |-> z, a |-> a]

ZeroPos == Pos(0, 0, 0, 0)

\* float(coords[i]) if len(coords) > i else 0
Coord(coords, i) == IF Len(coords) >= i THEN coords[i] ELSE 0

\* The dict built from a comma separated coordinate list: missing axes are 0,
\* axes past the fourth are dropped.
CoordsToPos(coords) ==
    Pos(Coord(coords, 1), Coord(coords, 2), Coord(coords, 3), Coord(coords, 4))

\* mpos - wco, axis by axis
WorkPos(mpos, wco) == [k \in Axes |-> mpos[k] - wco[k]]

InitStatus ==
    [state |-> "Unknown", mpos |-> ZeroPos, wpos |-> ZeroPos,
     feed_override |-> DEFAULT_OVERRIDE, spindle_override |-> DEFAULT_OVERRIDE,
     feed_rate |-> 0, spindle_speed |-> 0]

\* One '|' separated field of a status report, applied to
\* m = [status, wco_cached].  The body of the for loop of _parse_status.
ParsePart_NoRecompute(part, m) ==
    CASE part.tag = "MPos" ->
            LET mp == CoordsToPos(part.v)
            IN  [m EXCEPT !.status.mpos = mp,
                          !.status.wpos = WorkPos(mp, m.wco_cached)]
      [] part.tag = "WCO" ->
            [m EXCEPT !.wco_cached = CoordsToPos(part.v)]
      [] part.tag = "Ov" ->
            [m EXCEPT !.status.feed_override =
                          IF Len(part.v) > 0 THEN part.v[1] ELSE DEFAULT_OVERRIDE,
                      !.status.spindle_override =
                          IF Len(part.v) > 2 THEN part.v[3] ELSE DEFAULT_OVERRIDE]
      [] part.tag = "FS" ->
            [m EXCEPT !.status.feed_rate = IF Len(part.v) > 0 THEN part.v[1] ELSE 0,
                      !.status.spindle_speed = IF Len(part.v) > 1 THEN part.v[2] ELSE 0]
      [] part.tag = "F" ->
            [m EXCEPT !.status.feed_rate = part.v[1]]
      [] OTHER -> m

ParsePart(part, m) ==
    CASE part.tag = "MPos" ->
            LET mp == CoordsToPos(part.v)
            IN  [m EXCEPT !.status.mpos = mp,
                          !.status.wpos = WorkPos(mp, m.wco_cached)]
      [] part.tag = "WCO" ->
            LET w == CoordsToPos(part.v)
            IN  [m EXCEPT !.wco_cached = w,
                          !.status.wpos = WorkPos(m.status.mpos, w)]
      [] part.tag = "Ov" ->
            [m EXCEPT !.status.feed_override =
                          IF Len(part.v) > 0 THEN part.v[1] ELSE DEFAULT_OVERRIDE,
                      !.status.spindle_override =
                          IF Len(part.v) > 2 THEN part.v[3] ELSE DEFAULT_OVERRIDE]
      [] part.tag = "FS" ->
            [m EXCEPT !.status.feed_rate = IF Len(part.v) > 0 THEN part.v[1] ELSE 0,
                      !.status.spindle_speed = IF Len(part.v) > 1 THEN part.v[2] ELSE 0]
      [] part.tag = "F" ->
            [m EXCEPT !.status.feed_rate = part.v[1]]
      [] OTHER -> m

RECURSIVE ParseParts(_, _)
ParseParts(parts, m) ==
    IF parts = <<>> THEN m
    ELSE ParseParts(Tail(parts), ParsePart(Head(parts), m))

\* _parse_status(line): line = [state, parts]; parts[0] of the code is the
\* state name, the rest are the fields.
ParseStatus(line, m) ==
    ParseParts(line.parts, [m EXCEPT !.status.state = line.state])

\* ------------------------------------------------------------------------
\* Status reports the controller can send
\* ------------------------------------------------------------------------
CoordLists == {<<1>>, <<3, 2, 1>>, <<1, 2, 3, 4>>}

StatusParts ==
    {[tag |-> t, v |-> c] : t \in {"MPos", "WCO"}, c \in CoordLists}
    \cup {[tag |-> "Ov", v |-> <<120, 100, 90>>], [tag |-> "Ov", v |-> <<80>>],
          [tag |-> "FS", v |-> <<500, 1000>>], [tag |-> "F", v |-> <<300>>],
          [tag |-> "Pn", v |-> <<>>]}

RECURSIVE SeqsUpTo(_, _)
SeqsUpTo(S, n) ==
    IF n = 0 THEN {<<>>}
    ELSE LET shorter == SeqsUpTo(S, n - 1)
         IN  shorter \cup {Append(s, e) : s \in {t \in shorter : Len(t) = n - 1}, e \in S}

StatusLines ==
    {[state |-> s, parts |-> p] : s \in {"Idle", "Run"}, p \in SeqsUpTo(StatusParts, MaxParts)}

\* ------------------------------------------------------------------------
\* The recovery file and the stream loop's suspension points
\* ------------------------------------------------------------------------
NoRecovery == [file |-> "", total |-> -1, current |-> -1, timestamp |-> FALSE]

\* A message sent to one client socket; expected and got are the coordinates
\* quoted in the message of a failed start
Reply(type, error, expected, got) ==
    [type |-> type, error |-> error, expected |-> expected, got |-> got]

NoReply == Reply("none", "", ZeroPos, ZeroPos)

\* Where a _stream_loop task can be suspended.  "top": at the head of the while
\* loop (a new task, or after the paused sleep or the cursor increment);
\* "sending": in send_command(line); "file_error", "file_status": in that
\* broadcast; then the completion phase: "home_status" (the file_status
\* broadcast), "m5", "home_z", "home_xy" (in that send_command), "wait_z",
\* "wait_xy" (the sleep of the wait for Idle), "file_done" (the last broadcast).
LoopPcs == {"top", "sending", "file_error", "file_status", "home_status", "m5",
            "home_z", "wait_z", "home_xy", "wait_xy", "file_done"}

\* The awaits of one iteration: a task there holds the line it took at the cursor
FlightPcs == {"sending", "file_error", "file_status"}

\* The indices of lines
LineIndices == 0..(MaxLines - 1)

\* flight[pc][i]: how many tasks are at pc with the line they took at index i
NoFlight == [pc \in FlightPcs |-> [i \in LineIndices |-> 0]]

\* What the completion phase sends, as entries of run.sent next to the indices
\* of the program lines
M5 == -1

HomeZ == -2

HomeXY == -3

\* from: the cursor that the last accepted start set (-1: none since the file
\* was loaded); sent: what the tasks have handed to send_command since then,
\* after the lines that tasks were holding at that start; held: how many
\* lines those are
NoRun == [from |-> -1, sent |-> <<>>, held |-> 0]

\* The macro and its call of _wait_idle: pc is "none" (no macro runs), "body"
\* (a macro runs and has not called _wait_idle), "leave" (asleep in the first
\* loop), "finish" (asleep in the second loop), "returned" (the call returned
\* and the macro goes on), "cancelled" or "timeout" (the call raised and the
\* macro ended); elapsed is time.time() - start in milliseconds; left tells
\* whether the first loop ended by seeing a state other than Idle
NoWait == [pc |-> "none", elapsed |-> 0, left |-> FALSE]

\* The tasks that the macro_run messages create; a task that has ended leaves
\* its place to the next one
Slots == {"t1", "t2"}

\* A run_macro task: name is its macro ("": the place is free); pc is the
\* statement of the macro file it is at (0: outside the file); at is the await
\* it is suspended in: "created" (the task has not run yet), "log" (a _log of
\* the macro file), "slog" (the _log of _send_and_log), "resp" (send_command),
\* "sleep" (a sleep of _wait_idle), "notify" (the macro_status broadcast of
\* _wait_for_continue), "event" (continue_event.wait()), "elog" (the _log of
\* the error, or of the missing file), "report_error" and "report_done" (the
\* terminal broadcast).  released: the wait() of the task has been resolved by
\* a set().  Kept for the properties: cancelled tells whether cancel() was
\* called while the macro was in its file ("wait": while it was suspended in
\* _wait_idle or _wait_for_continue; "other": elsewhere); signalled tells
\* whether continue_macro() or cancel() was called since the task entered
\* _wait_for_continue.
FreeTask == [name |-> "", pc |-> 0, at |-> "free", cancelled |-> "no",
             signalled |-> FALSE, released |-> FALSE]

\* Python's None, for probe_work_z; a value z is <<z>>
None == <<>>

\* An attribute that no statement has assigned: reading it raises
\* AttributeError; a value v is <<v>>
Missing == <<>>

\* ------------------------------------------------------------------------
\* The callers of send_command, the lines of the controller, the clients
\* ------------------------------------------------------------------------
\* The tasks that call send_command: a control-channel handler (connect, gcode,
\* unlock) and the stream loop
Callers == {"handler", "stream"}

\* A caller: pc is where it is ("idle": outside send_command and send_nowait;
\* "bcast": in the serial_write broadcast of send_command; "ready": about to
\* test the response queue; "get": suspended in response_queue.get();
\* "nowait": in the serial_write broadcast of send_nowait); line is the line it
\* has written and waits on; first is the first terminator put on the response
\* queue since that write (0: none yet); todo counts the commands that
\* connect() sends after this one.  What a call returns goes to the code that
\* awaited it and is no state of the connection: the step tells it (the item
\* that QueueGet takes, Timeout, the closed connection of SendCommand).
IdleCaller == [pc |-> "idle", line |-> 0, first |-> 0, todo |-> 0]

\* A written line that the controller has yet to answer: its number, what it
\* asks for, and whether the body of the answer is still to come
Written(id, cmd) == [id |-> id, cmd |-> cmd, body |-> cmd \in {"$$", "$#"}]

\* A line read from the controller.  id: the written line that an ok or error
\* answers; state and coords: the content of a report.
Line(kind, id, state, coords) ==
    [kind |-> kind, id |-> id, state |-> state, coords |-> coords]

NoLine == Line("none", 0, "", <<>>)

\* The connected sockets; Operator is the client whose file messages are followed
Clients == {"c1", "c2"}

Operator == "c1"

\* ------------------------------------------------------------------------
\* Initial state: the objects as constructed
\* ------------------------------------------------------------------------
\* The handle_message calls that deal with connect and disconnect, one per
\* client.  op is the message it handles; pc is where it is ("arrived": about
\* to run; "d_read", "d_poll": in disconnect(), awaiting the read or the poll
\* task; "cmd1", "cmd2": in connect(), awaiting send_command of $$ or of $#;
\* "cmd": awaiting send_command of a line of G-code); awaits is the task awaited.
Handlers == {"h1", "h2"}

IdleHandler == [pc |-> "idle", op |-> "", awaits |-> 0]

\* The connection before the first connect(), and an event loop with nothing to run
InitLink ==
    /\ last_probe = Missing
    /\ chunk = <<>>
    /\ ready = <<>>
    /\ pending = 0
    /\ sockets = [c \in Clients |-> <<>>]
    /\ emitted = <<>>
    /\ ser = None
    /\ read_task = None
    /\ poll_task = None
    /\ tasks = <<>>
    /\ handlers = [h \in Handlers |-> IdleHandler]
    /\ link = <<>>
    /\ quiet = FALSE

\* self.fixtures = [] (MacroEngine.__init__); nothing analysed or checked yet
InitCheck ==
    /\ fixtures = <<>>
    /\ gcode = <<>>
    /\ report = None
    /\ announced = <<>>

InitSettings ==
    /\ settings = [k \in {"$130", "$131"} |-> Absent]
    /\ g28_pos = ZeroPos
    /\ motion = "none"
    /\ InitLink

InitMachine ==
    /\ status = InitStatus
    /\ wco_cached = ZeroPos
    /\ InitSettings
    /\ InitCheck

InitStreamer ==
    /\ filename = ""
    /\ lines = <<>>
    /\ total_lines = 0
    /\ current_line = 0
    /\ running = FALSE
    /\ paused = FALSE
    /\ stop_flag = FALSE
    /\ loops = [pc \in LoopPcs |-> 0]
    /\ flight = NoFlight
    /\ run = NoRun
    /\ recovery = NoRecovery

InitConnection ==
    /\ connected = FALSE
    /\ wire = <<>>
    /\ writes = 0
    /\ response_queue = <<>>
    /\ getters = <<>>
    /\ callers = [c \in Callers |-> IdleCaller]
    /\ read_loop = [pc |-> "read", line |-> NoLine]

InitServer ==
    /\ clients = {}
    /\ stalled = {}
    /\ probe_tasks = FALSE
    /\ ws_out = NoReply
    /\ start_call = NoReply

InitMacros ==
    /\ cancel_flag = FALSE
    /\ wait_idle = NoWait
    /\ macros = [t \in Slots |-> FreeTask]
    /\ continue_event = FALSE
    /\ probe_work_z = None
    /\ set_z_done = FALSE
    /\ macro_running = FALSE
    /\ modal = [limits |-> TRUE, relative |-> FALSE]

Init == InitMachine /\ InitStreamer /\ InitConnection /\ InitServer /\ InitMacros

\* ------------------------------------------------------------------------
\* Specification of the status parser alone
\* ------------------------------------------------------------------------
AbsorbStatus(line) ==
    LET m == ParseStatus(line, [status |-> status, wco_cached |-> wco_cached])
    IN  /\ status' = m.status
        /\ wco_cached' = m.wco_cached
        /\ UNCHANGED <<settings, g28_pos, motion>>
        /\ UNCHANGED <<macroVars, engineVars, linkVars, streamVars, wsVars, protoVars, hubVars>>

NextStatus == \E line \in StatusLines : AbsorbStatus(line)

SpecStatus == Init /\ [][NextStatus]_vars

\* C5: after any status line is absorbed, wpos = mpos - wco_cached on every
\* axis; _parse_status has no await, so every state another task can see is
\* one of these.
C5_WposIsMposMinusWco ==
    \A k \in Axes : status.wpos[k] = status.mpos[k] - wco_cached[k]

\* A report carrying MPos and then WCO has been absorbed and produced a work
\* position that differs from the machine position.
C5_Witness ==
    /\ status.state = "Run"
    /\ status.mpos = Pos(3, 2, 1, 0)
    /\ wco_cached = Pos(1, 2, 3, 4)
    /\ status.wpos = Pos(2, 0, -2, -4)

\* ------------------------------------------------------------------------
\* FileStreamer
\* ------------------------------------------------------------------------
Abs(n) == IF n < 0 THEN -n ELSE n

Max(a, b) == IF a > b THEN a ELSE b

\* A line of an uploaded file: k > 0 is the k-th G-code line, 0 a blank line,
\* -1 a line starting with ';'.
IsCode(l) == l > 0

\* load_file: the lines kept from the uploaded content
ProgramLines(content) == SelectSeq(content, IsCode)

\* float(self.grbl.settings.get('$131', 400))
WorkMaxY == IF settings["$131"] = Absent THEN DEFAULT_WORK_MAX_Y ELSE settings["$131"]

\* (expected_x, expected_y, expected_z) of start()
ExpectedStart(work_max_y) ==
    Pos(-START_POS_MARGIN, -(work_max_y - START_POS_MARGIN), -START_POS_MARGIN, 0)

GateFails_Strict(mpos, work_max_y) ==
    LET e == ExpectedStart(work_max_y)
        dx == Abs(mpos.x - e.x)
        dy == Abs(mpos.y - e.y)
        dz == Abs(mpos.z - e.z)
    IN  dx >= START_POS_TOLERANCE \/ dy >= START_POS_TOLERANCE \/ dz >= START_POS_TOLERANCE

\* The test of start(): some axis is further than the tolerance from the corner
GateFails(mpos, work_max_y) ==
    LET e == ExpectedStart(work_max_y)
        dx == Abs(mpos.x - e.x)
        dy == Abs(mpos.y - e.y)
        dz == Abs(mpos.z - e.z)
    IN  dx > START_POS_TOLERANCE \/ dy > START_POS_TOLERANCE \/ dz > START_POS_TOLERANCE

\* handle_message, file_start: a from_line above 0 turns the check off
SkipCheck(from_line, skip) == IF from_line > 0 THEN TRUE ELSE skip

\* start(from_line, skip_position_check): which return it takes
StartOutcome(from_line, skip_position_check) ==
    IF lines = <<>> THEN "no_file"
    ELSE IF ~skip_position_check /\ from_line = 0 /\ GateFails(status.mpos, WorkMaxY)
         THEN "gate"
         ELSE "started"

\* _save_recovery: what is written to recovery.txt
RecoveryRecord(f, total, current) ==
    [file |-> f, total |-> total, current |-> current, timestamp |-> TRUE]

\* The tasks of loops
LiveLoops ==
    loops["top"] + loops["sending"] + loops["file_error"] + loops["file_status"]
    + loops["home_status"] + loops["m5"] + loops["home_z"] + loops["wait_z"]
    + loops["home_xy"] + loops["wait_xy"] + loops["file_done"]

\* flight when a task takes the line at index i and goes to pc, when a task
\* holding line i goes from one await to the next, and when it lets go of it
Take(pc, i) == [flight EXCEPT ![pc][i] = @ + 1]

Pass(from, to, i) == [flight EXCEPT ![from][i] = @ - 1, ![to][i] = @ + 1]

Drop(pc, i) == [flight EXCEPT ![pc][i] = @ - 1]

\* The indices of the lines that tasks hold, in index order from i on
FlightCount(i) == flight["sending"][i] + flight["file_error"][i] + flight["file_status"][i]

RECURSIVE HeldFrom(_)
HeldFrom(i) ==
    IF i \notin LineIndices THEN <<>>
    ELSE [k \in 1..FlightCount(i) |-> i] \o HeldFrom(i + 1)

\* run when a task hands cmd to send_command
Handed(cmd) == [run EXCEPT !.sent = Append(@, cmd)]

\* One task moves from an await to the next; "exit" is the end of the coroutine
MoveLoop(from, to) ==
    IF to = "exit" THEN [loops EXCEPT ![from] = @ - 1]
    ELSE IF from = to THEN loops
    ELSE [loops EXCEPT ![from] = @ - 1, ![to] = @ + 1]

\* ------------------------------------------------------------------------
\* The methods of FileStreamer that the control channel calls
\* ------------------------------------------------------------------------
\* load_file(filename, content)
LoadFile(f, content) ==
    /\ filename' = f
    /\ lines' = ProgramLines(content)
    /\ total_lines' = Len(ProgramLines(content))
    /\ current_line' = 0
    /\ run' = NoRun
    /\ UNCHANGED <<running, paused, stop_flag, loops, flight, recovery>>

\* start() returns (False, msg) before it touches the streamer
StartRejected(from_line) == UNCHANGED streamVars

\* start() past its checks: the cursor and the flags are set and a
\* _stream_loop task is created
StartAccepted(from_line) ==
    /\ current_line' = Max(0, from_line)
    /\ running' = TRUE
    /\ paused' = FALSE
    /\ stop_flag' = FALSE
    /\ loops' = [loops EXCEPT !["top"] = @ + 1]
    /\ run' = [from |-> Max(0, from_line), sent |-> HeldFrom(0),
               held |-> Len(HeldFrom(0))]
    /\ UNCHANGED <<filename, lines, total_lines, flight, recovery>>

\* start(from_line, skip_position_check)
Start(from_line, skip_position_check) ==
    /\ LiveLoops < MaxLoops
    /\ IF StartOutcome(from_line, skip_position_check) = "started"
       THEN StartAccepted(from_line)
       ELSE StartRejected(from_line)

\* pause()
Pause ==
    /\ paused' = TRUE
    /\ UNCHANGED <<filename, lines, total_lines, current_line, running, stop_flag,
                   loops, flight, run, recovery>>

\* resume()
Resume ==
    /\ paused' = FALSE
    /\ UNCHANGED <<filename, lines, total_lines, current_line, running, stop_flag,
                   loops, flight, run, recovery>>

\* stop()
Stop ==
    /\ stop_flag' = TRUE
    /\ running' = FALSE
    /\ paused' = FALSE
    /\ recovery' = RecoveryRecord(filename, total_lines, current_line)
    /\ UNCHANGED <<filename, lines, total_lines, current_line, loops, flight, run>>

\* ------------------------------------------------------------------------
\* Control channel: handle_message on the streamer's messages, with the reply
\* it sends to the client that sent the message
\* ------------------------------------------------------------------------
FileNames == {"a.nc"}

CleanProgram(n) == [i \in 1..n |-> i]

Contents == {CleanProgram(n) : n \in 0..MaxLines} \cup {<<-1, 1, 0>>}

FromLines == (-1)..(MaxLines + 1)

\* The (success, message) that start() returns, as the reply that
\* handle_message makes of it: file_start_error with the message, or nothing
StartReply(from_line, skip_position_check) ==
    CASE StartOutcome(from_line, skip_position_check) = "no_file" ->
            Reply("file_start_error", "No file loaded", ZeroPos, ZeroPos)
      [] StartOutcome(from_line, skip_position_check) = "gate" ->
            Reply("file_start_error", "Start position check failed",
                  ExpectedStart(WorkMaxY), [status.mpos EXCEPT !.a = 0])
      [] OTHER -> NoReply

\* handle_client takes the next message of a client when handle_message has
\* returned for the one before
HandlerFree == Operator \in clients /\ start_call = NoReply

\* file_upload
HandleFileUpload(f, content) ==
    /\ HandlerFree
    /\ LoadFile(f, content)
    /\ ws_out' = Reply("file_status", "", ZeroPos, ZeroPos)
    /\ UNCHANGED <<machineVars, macroVars, engineVars, linkVars, protoVars, hubVars, start_call>>

\* file_start {from_line, skip_position_check}, up to its first suspension: a
\* start that fails the position check broadcasts file_error before it returns
HandleFileStart(from_line, skip) ==
    /\ HandlerFree
    /\ Start(from_line, SkipCheck(from_line, skip))
    /\ IF StartOutcome(from_line, SkipCheck(from_line, skip)) = "gate"
       THEN /\ start_call' = StartReply(from_line, SkipCheck(from_line, skip))
            /\ UNCHANGED ws_out
       ELSE /\ ws_out' = StartReply(from_line, SkipCheck(from_line, skip))
            /\ UNCHANGED start_call
    /\ UNCHANGED <<machineVars, macroVars, engineVars, linkVars, protoVars, hubVars>>

\* The file_error broadcast of start() returned: start() returns (False, msg)
\* and handle_message sends file_start_error
FileStartReported ==
    /\ start_call # NoReply
    /\ stalled = {}
    /\ ws_out' = start_call
    /\ start_call' = NoReply
    /\ UNCHANGED <<machineVars, macroVars, engineVars, linkVars, streamVars, protoVars, hubVars>>

\* file_pause
HandleFilePause ==
    /\ HandlerFree
    /\ Pause
    /\ ws_out' = NoReply
    /\ UNCHANGED <<machineVars, macroVars, engineVars, linkVars, protoVars, hubVars, start_call>>

\* file_resume
HandleFileResume ==
    /\ HandlerFree
    /\ Resume
    /\ ws_out' = NoReply
    /\ UNCHANGED <<machineVars, macroVars, engineVars, linkVars, protoVars, hubVars, start_call>>

\* file_stop
HandleFileStop ==
    /\ HandlerFree
    /\ Stop
    /\ ws_out' = NoReply
    /\ UNCHANGED <<machineVars, macroVars, engineVars, linkVars, protoVars, hubVars, start_call>>

\* handle_client: a socket is added to the set of clients
ClientConnect(c) ==
    /\ c \notin clients
    /\ clients' = clients \cup {c}
    /\ UNCHANGED <<machineVars, macroVars, engineVars, linkVars, streamVars, wsVars, protoVars, stalled, probe_tasks>>

\* A client stops reading: its send() does not complete from now on
ClientStall(c) ==
    /\ c \in clients \ stalled
    /\ stalled' = stalled \cup {c}
    /\ UNCHANGED <<machineVars, macroVars, engineVars, linkVars, streamVars, wsVars, protoVars, clients, probe_tasks>>

\* ------------------------------------------------------------------------
\* _stream_loop, one task per accepted start
\* ------------------------------------------------------------------------
\* The top of the while loop up to the next await: either the line at the
\* cursor is written (send_command), or the loop is left, running is cleared
\* and the recovery file is written.  A paused loop sleeps and comes back here.
StreamTop ==
    /\ loops["top"] > 0
    /\ IF running /\ current_line < total_lines /\ ~stop_flag
       THEN /\ ~paused
            /\ loops' = MoveLoop("top", "sending")
            /\ flight' = Take("sending", current_line)
            /\ run' = Handed(current_line)
            /\ UNCHANGED <<running, recovery>>
       ELSE /\ running' = FALSE
            /\ recovery' = RecoveryRecord(filename, total_lines, current_line)
            /\ loops' = MoveLoop("top", IF current_line >= total_lines /\ ~stop_flag
                                        THEN "home_status" ELSE "exit")
            /\ UNCHANGED <<flight, run>>
    /\ UNCHANGED <<filename, lines, total_lines, current_line, paused, stop_flag>>
    /\ UNCHANGED <<machineVars, macroVars, engineVars, linkVars, wsVars, protoVars, hubVars>>

\* if self.current_line % RECOVERY_SAVE_INTERVAL == 0: self._save_recovery()
PeriodicSave ==
    IF current_line % RECOVERY_SAVE_INTERVAL = 0
    THEN recovery' = RecoveryRecord(filename, total_lines, current_line)
    ELSE UNCHANGED recovery

\* 'line': self.current_line + 1, read when the file_error event is built
ErrorLineNamed == current_line + 1

\* send_command returned to a task that holds line i: an error result is
\* broadcast as file_error first
StreamResult(result) ==
    /\ loops["sending"] > 0
    /\ \E i \in LineIndices :
          /\ flight["sending"][i] > 0
          /\ IF result = "error"
             THEN /\ loops' = MoveLoop("sending", "file_error")
                  /\ flight' = Pass("sending", "file_error", i)
                  /\ UNCHANGED recovery
             ELSE /\ loops' = MoveLoop("sending", "file_status")
                  /\ flight' = Pass("sending", "file_status", i)
                  /\ PeriodicSave
    /\ UNCHANGED <<filename, lines, total_lines, current_line, running, paused,
                   stop_flag, run>>
    /\ UNCHANGED <<machineVars, macroVars, engineVars, linkVars, wsVars, protoVars, hubVars>>

\* the file_error broadcast returned
StreamAfterError ==
    /\ loops["file_error"] > 0
    /\ \E i \in LineIndices :
          /\ flight["file_error"][i] > 0
          /\ flight' = Pass("file_error", "file_status", i)
    /\ loops' = MoveLoop("file_error", "file_status")
    /\ PeriodicSave
    /\ UNCHANGED <<filename, lines, total_lines, current_line, running, paused,
                   stop_flag, run>>
    /\ UNCHANGED <<machineVars, macroVars, engineVars, linkVars, wsVars, protoVars, hubVars>>

\* the file_status broadcast returned: self.current_line += 1
StreamAdvance ==
    /\ loops["file_status"] > 0
    /\ \E i \in LineIndices :
          /\ flight["file_status"][i] > 0
          /\ flight' = Drop("file_status", i)
    /\ current_line' = current_line + 1
    /\ loops' = MoveLoop("file_status", "top")
    /\ UNCHANGED <<filename, lines, total_lines, running, paused, stop_flag, run,
                   recovery>>
    /\ UNCHANGED <<machineVars, macroVars, engineVars, linkVars, wsVars, protoVars, hubVars>>

\* The completion phase, from one await to the next: file_status, M5, the Z
\* move, the wait for Idle, the X/Y move, the wait for Idle, file_done.
HomeNext(pc) ==
    CASE pc = "home_status" -> "m5"
      [] pc = "m5" -> "home_z"
      [] pc = "home_z" -> "wait_z"
      [] pc = "wait_z" -> "home_xy"
      [] pc = "home_xy" -> "wait_xy"
      [] pc = "wait_xy" -> "file_done"
      [] pc = "file_done" -> "exit"

\* What the task hands to send_command when it goes on from pc
HomeCommand(pc) ==
    CASE pc = "home_status" -> M5
      [] pc = "m5" -> HomeZ
      [] pc = "wait_z" -> HomeXY

\* A step of the completion phase.  A wait for Idle ends when the last status
\* report that was absorbed says Idle; a move that is written to a connected
\* controller puts the machine in motion.
StreamHome(pc) ==
    /\ loops[pc] > 0
    /\ pc \in {"wait_z", "wait_xy"} => status.state = "Idle"
    /\ loops' = MoveLoop(pc, HomeNext(pc))
    /\ IF pc \in {"home_status", "m5", "wait_z"}
       THEN /\ run' = Handed(HomeCommand(pc))
            /\ motion' = IF connected /\ HomeCommand(pc) \in {HomeZ, HomeXY}
                         THEN "moving" ELSE motion
       ELSE UNCHANGED <<run, motion>>
    /\ UNCHANGED <<filename, lines, total_lines, current_line, running, paused,
                   stop_flag, flight, recovery>>
    /\ UNCHANGED <<status, wco_cached, settings, g28_pos>>
    /\ UNCHANGED <<macroVars, engineVars, linkVars, wsVars, protoVars, hubVars>>

HomePcs == {"home_status", "m5", "home_z", "wait_z", "home_xy", "wait_xy", "file_done"}

\* ------------------------------------------------------------------------
\* Specification of the streamer
\* ------------------------------------------------------------------------
\* Status reports seen while streaming: idle at the start corner, or moving
\* away from it
StreamStatusLines ==
    {[state |-> "Idle", parts |-> <<[tag |-> "MPos", v |-> <<-2, -398, -2, 0>>]>>],
     [state |-> "Run", parts |-> <<[tag |-> "MPos", v |-> <<-2, -390, -2, 0>>]>>]}

\* The streamer and its tasks; the replies to the clients are left out here
\* (SpecControl has them)
NextStream ==
    \/ \E line \in StreamStatusLines : AbsorbStatus(line)
    \/ \E f \in FileNames, c \in Contents :
          LoadFile(f, c) /\ UNCHANGED <<machineVars, macroVars, engineVars, linkVars, wsVars, protoVars, hubVars>>
    \/ \E n \in FromLines, b \in BOOLEAN :
          Start(n, SkipCheck(n, b)) /\ UNCHANGED <<machineVars, macroVars, engineVars, linkVars, wsVars, protoVars, hubVars>>
    \/ Pause /\ UNCHANGED <<machineVars, macroVars, engineVars, linkVars, wsVars, protoVars, hubVars>>
    \/ Resume /\ UNCHANGED <<machineVars, macroVars, engineVars, linkVars, wsVars, protoVars, hubVars>>
    \/ Stop /\ UNCHANGED <<machineVars, macroVars, engineVars, linkVars, wsVars, protoVars, hubVars>>
    \/ StreamTop
    \/ \E r \in {"ok", "error"} : StreamResult(r)
    \/ StreamAfterError
    \/ StreamAdvance
    \/ \E pc \in HomePcs : StreamHome(pc)

SpecStream == Init /\ [][NextStream]_vars

\* C7: while the streamer stays running the cursor never decreases, except in
\* a step that loads a file (stop clears running, so a stop step is not a step
\* in which the streamer stays running).
C7_CursorMonotoneWhileRunning ==
    [][(running /\ running' /\ ~(\E f \in FileNames, c \in Contents : LoadFile(f, c)))
         => current_line' >= current_line]_vars

\* ------------------------------------------------------------------------
\* Specification of the control channel's file messages: the start-position
\* gate at machine positions on, inside and outside the tolerance, with the
\* replies.  A behaviour starts after the controller has reported a position
\* and, possibly, its Y travel; the stream tasks that the accepted starts
\* create are not scheduled here (SpecStream runs them).
\* ------------------------------------------------------------------------
\* Y travels the controller reports as $131
Travels == {300}

\* Distances from the start corner tried on each axis
Deviations == {0, START_POS_TOLERANCE, START_POS_TOLERANCE + 1,
               -START_POS_TOLERANCE, -(START_POS_TOLERANCE + 1)}

\* Machine positions around the start corner of a Y travel, one axis off the
\* corner at a time
OffCorner(travel, axis) ==
    LET e == ExpectedStart(travel)
    IN  {<<e.x + (IF axis = "x" THEN d ELSE 0), e.y + (IF axis = "y" THEN d ELSE 0),
           e.z + (IF axis = "z" THEN d ELSE 0), 0>> : d \in Deviations}

\* and with all three axes at the tolerance
AtTolerance(travel) ==
    LET e == ExpectedStart(travel)
    IN  <<e.x + START_POS_TOLERANCE, e.y - START_POS_TOLERANCE,
          e.z + START_POS_TOLERANCE, 0>>

\* What the controller has reported when a start is asked for: the machine
\* position and the Y travel $131 (Absent: the setting was never echoed)
GateCases ==
    {<<c, Absent>> : c \in OffCorner(DEFAULT_WORK_MAX_Y, "x")
                          \cup OffCorner(DEFAULT_WORK_MAX_Y, "y")
                          \cup OffCorner(DEFAULT_WORK_MAX_Y, "z")
                          \cup {AtTolerance(DEFAULT_WORK_MAX_Y)}}
    \cup UNION {{<<c, t>> : c \in OffCorner(t, "y") \cup OffCorner(DEFAULT_WORK_MAX_Y, "y")}
                : t \in Travels}
    \cup {<<c, Absent>> : c \in UNION {OffCorner(t, "y") : t \in Travels}}

InitControl ==
    /\ \E g \in GateCases :
          /\ status = ParseStatus([state |-> "Idle",
                                   parts |-> <<[tag |-> "MPos", v |-> g[1]]>>],
                                  [status |-> InitStatus, wco_cached |-> ZeroPos]).status
          /\ settings = [k \in {"$130", "$131"} |-> IF k = "$131" THEN g[2] ELSE Absent]
    /\ wco_cached = ZeroPos
    /\ g28_pos = ZeroPos
    /\ motion = "none"
    /\ InitLink
    /\ InitCheck
    /\ InitMacros
    /\ InitStreamer
    /\ InitConnection
    /\ clients = {Operator}
    /\ stalled = {}
    /\ probe_tasks = FALSE
    /\ ws_out = NoReply
    /\ start_call = NoReply

NextControl ==
    \/ \E f \in FileNames, c \in Contents : HandleFileUpload(f, c)
    \/ \E n \in FromLines, b \in BOOLEAN : HandleFileStart(n, b)
    \/ FileStartReported
    \/ HandleFilePause
    \/ HandleFileResume
    \/ HandleFileStop
    \/ \E c \in Clients \ {Operator} : ClientConnect(c)
    \/ \E c \in Clients \ {Operator} : ClientStall(c)

SpecControl == InitControl /\ [][NextControl]_vars

\* The control channel when no client ever asks to skip the position check
NextNoSkip ==
    \/ \E f \in FileNames, c \in Contents : HandleFileUpload(f, c)
    \/ \E n \in FromLines : HandleFileStart(n, FALSE)
    \/ FileStartReported
    \/ HandleFileStop

SpecNoSkip == InitControl /\ [][NextNoSkip]_vars

\* A scheduled task runs: the handler whose broadcast has returned goes on
FairSpecControl == SpecControl /\ WF_vars(FileStartReported)

\* A step that creates a _stream_loop task
RunStarts == loops'["top"] = loops["top"] + 1

\* The machine is at the start corner: each of x, y, z is within the tolerance
\* of (-margin, -(travel_y - margin), -margin), travel_y being $131
AtStartCorner ==
    /\ status.mpos.x + START_POS_MARGIN \in (-START_POS_TOLERANCE)..START_POS_TOLERANCE
    /\ status.mpos.y + (WorkMaxY - START_POS_MARGIN)
          \in (-START_POS_TOLERANCE)..START_POS_TOLERANCE
    /\ status.mpos.z + START_POS_MARGIN \in (-START_POS_TOLERANCE)..START_POS_TOLERANCE

\* C8: when no start asks to skip the check, a run that begins at line 0 begins
\* with the machine at the start corner, whatever from_line was sent.
C8_LineZeroRunsPassTheGate ==
    [][(RunStarts /\ current_line' = 0) => AtStartCorner]_vars

\* C9, as amended: with a program loaded, a file_start with from_line 0 and
\* without skip_position_check starts a run if and only if the machine is at the
\* start corner, the tolerance included.
C9_GateAcceptsIffAtCorner ==
    [][(lines # <<>> /\ HandleFileStart(0, FALSE)) => (RunStarts <=> AtStartCorner)]_vars

\* C9 as stated: a file_start with from_line 0 and without skip_position_check
\* starts a run if and only if the machine is at the start corner.
C9_AsStated ==
    [][HandleFileStart(0, FALSE) => (RunStarts <=> AtStartCorner)]_vars

\* A start was refused with X one millimetre past the tolerance of the default
\* travel's corner
C9_Witness ==
    /\ ws_out.type = "file_start_error"
    /\ ws_out.error = "Start position check failed"
    /\ ws_out.expected = ExpectedStart(DEFAULT_WORK_MAX_Y)
    /\ ws_out.got = Pos(-START_POS_MARGIN + START_POS_TOLERANCE + 1,
                        -(DEFAULT_WORK_MAX_Y - START_POS_MARGIN), -START_POS_MARGIN, 0)

\* The start that a file_start message asks for is refused
Refused(from_line, skip) ==
    \/ lines = <<>>
    \/ from_line = 0 /\ ~skip /\ ~AtStartCorner

\* C10: a refused start creates no task and leaves the streamer as it was, and
\* the client that asked is sent file_start_error.
C10_RefusedStartIsReported ==
    /\ [][\A n \in FromLines, b \in BOOLEAN :
            (HandleFileStart(n, b) /\ Refused(n, b)) =>
                /\ UNCHANGED streamVars
                /\ lines = <<>> => ws_out'.type = "file_start_error"]_vars
    /\ (start_call # NoReply) ~> (start_call = NoReply /\ ws_out.type = "file_start_error")

\* ------------------------------------------------------------------------
\* GrblConnection: send_command, send_nowait and the read loop
\* ------------------------------------------------------------------------
\* The terminators: the lines that _handle_line puts on the response queue
Terminates_Alarm(line) == line.kind \in {"ok", "error", "alarm"}

Terminates(line) == line.kind \in {"ok", "error"}

\* The lines of the controller that are not terminators: a status report, an
\* alarm, a probe result, the banner; a setting, which is the body of the answer
\* to $$; a stored position, which is the body of the answer to $#
AsyncLines ==
    {Line("status", 0, "Idle", <<-2, -398, -2, 0>>),
     Line("alarm", 0, "", <<>>),
     Line("probe", 0, "1", <<1, 2, 3, 0>>),
     Line("banner", 0, "", <<>>),
     Line("setting", 0, "", <<300>>),
     Line("g28", 0, "", <<-1, -1, -1>>)}

BodyKind(cmd) == IF cmd = "$$" THEN "setting" ELSE "g28"

\* The lines that can be next on the serial port: a report, or what the
\* controller answers to the oldest unanswered line (its body, then ok or error)
NextLines ==
    {l \in AsyncLines : l.kind \in {"status", "alarm", "probe", "banner"}}
    \cup (IF wire = <<>> THEN {}
          ELSE IF Head(wire).body
               THEN {l \in AsyncLines : l.kind = BodyKind(Head(wire).cmd)}
               ELSE {Line(k, Head(wire).id, "", <<>>) : k \in {"ok", "error"}})

\* What a line read off the serial port leaves of wire
Answered(line) ==
    IF line.id # 0 THEN Tail(wire)
    ELSE IF line.kind \in {"setting", "g28"}
         THEN [wire EXCEPT ![1].body = FALSE]
         ELSE wire

\* broadcast() suspends its caller when there is a client, and returns when
\* every send has completed
BroadcastSuspends == clients # {}

BroadcastReturns == stalled = {}

\* Lines that callers still owe: the commands connect() sends after the first
Owed == callers["handler"].todo

Remove(seq, c) == SelectSeq(seq, LAMBDA e : e # c)

\* send_command past its connected test, up to its first suspension: the
\* response queue is emptied and the line is written and broadcast; with no
\* client the call goes on to response_queue.get(), which finds the queue empty.
\* cs and g are callers and getters as the step found or made them; td is the
\* number of commands that follow.
Issue(c, cs, g, cmd, td) ==
    /\ response_queue' = <<>>
    /\ writes' = writes + 1
    /\ wire' = Append(wire, Written(writes + 1, cmd))
    /\ callers' = [cs EXCEPT ![c] = [pc |-> IF BroadcastSuspends THEN "bcast" ELSE "get",
                                     line |-> writes + 1, first |-> 0,
                                     todo |-> td]]
    /\ getters' = IF BroadcastSuspends THEN g ELSE Append(g, c)

\* send_command returns ret to its caller; connect() then sends its next
\* command at once.  q and g are the response queue and getters left by the step.
Return(c, ret, q, g) ==
    LET cs == [callers EXCEPT ![c] = IdleCaller]
    IN  IF callers[c].todo > 0
        THEN Issue(c, cs, g, "$#", callers[c].todo - 1)
        ELSE /\ callers' = cs
             /\ response_queue' = q
             /\ getters' = g
             /\ UNCHANGED <<wire, writes>>

\* connect(port), on a closed connection: the read loop is started and the
\* settings are asked for ($$), the stored positions ($#) after that
Connect(c) ==
    /\ c = "handler"
    /\ callers[c].pc = "idle"
    /\ ~connected
    /\ writes + 2 <= MaxWrites
    /\ connected' = TRUE
    /\ read_loop' = [pc |-> "read", line |-> NoLine]
    /\ Issue(c, callers, getters, "$$", 1)
    /\ UNCHANGED <<machineVars, macroVars, engineVars, linkVars, streamVars, wsVars, hubVars>>

\* send_command(line); on a closed connection it returns its error at once and
\* changes nothing
SendCommand(c) ==
    /\ callers[c].pc = "idle"
    /\ IF ~connected
       THEN UNCHANGED <<callers, wire, writes, response_queue, getters>>
       ELSE /\ writes + Owed < MaxWrites
            /\ Issue(c, callers, getters, "gcode", 0)
    /\ UNCHANGED <<connected, read_loop>>
    /\ UNCHANGED <<machineVars, macroVars, engineVars, linkVars, streamVars, wsVars, hubVars>>

\* the serial_write broadcast of send_command returned
SerialWriteDone(c) ==
    /\ callers[c].pc = "bcast"
    /\ BroadcastReturns
    /\ callers' = [callers EXCEPT ![c].pc = "ready"]
    /\ UNCHANGED <<connected, wire, writes, response_queue, getters, read_loop>>
    /\ UNCHANGED <<machineVars, macroVars, engineVars, linkVars, streamVars, wsVars, hubVars>>

\* response_queue.get(): an item is taken if there is one, else the caller
\* waits at the end of the getters
QueueGet(c) ==
    /\ callers[c].pc = "ready"
    /\ IF response_queue = <<>>
       THEN /\ callers' = [callers EXCEPT ![c].pc = "get"]
            /\ getters' = Append(getters, c)
            /\ UNCHANGED <<wire, writes, response_queue>>
       ELSE Return(c, Head(response_queue).kind, Tail(response_queue), getters)
    /\ UNCHANGED <<connected, read_loop>>
    /\ UNCHANGED <<machineVars, macroVars, engineVars, linkVars, streamVars, wsVars, hubVars>>

\* asyncio.wait_for gives up on a suspended get: send_command returns error:timeout
Timeout(c) ==
    /\ callers[c].pc = "get"
    /\ Return(c, "timeout", response_queue, Remove(getters, c))
    /\ UNCHANGED <<connected, read_loop>>
    /\ UNCHANGED <<machineVars, macroVars, engineVars, linkVars, streamVars, wsVars, hubVars>>

\* send_nowait(line) on an open connection
SendNowait(c) ==
    /\ c = "handler"
    /\ callers[c].pc = "idle"
    /\ connected
    /\ writes + Owed < MaxWrites
    /\ writes' = writes + 1
    /\ wire' = Append(wire, Written(writes + 1, "gcode"))
    /\ callers' = IF BroadcastSuspends THEN [callers EXCEPT ![c].pc = "nowait"]
                   ELSE callers
    /\ UNCHANGED <<connected, response_queue, getters, read_loop>>
    /\ UNCHANGED <<machineVars, macroVars, engineVars, linkVars, streamVars, wsVars, hubVars>>

\* the serial_write broadcast of send_nowait returned
NowaitDone(c) ==
    /\ callers[c].pc = "nowait"
    /\ BroadcastReturns
    /\ callers' = [callers EXCEPT ![c].pc = "idle"]
    /\ UNCHANGED <<connected, wire, writes, response_queue, getters, read_loop>>
    /\ UNCHANGED <<machineVars, macroVars, engineVars, linkVars, streamVars, wsVars, hubVars>>

\* _handle_line, the machine state: a status report is parsed, an alarm sets
\* the state, a stored position and a setting are kept
Absorb(line) ==
    /\ UNCHANGED <<motion, macroVars, engineVars, linkVars>>
    /\ IF line.kind = "status"
       THEN LET m == ParseStatus([state |-> line.state,
                                  parts |-> <<[tag |-> "MPos", v |-> line.coords]>>],
                                 [status |-> status, wco_cached |-> wco_cached])
            IN  /\ status' = m.status
                /\ wco_cached' = m.wco_cached
                /\ UNCHANGED <<settings, g28_pos>>
       ELSE IF line.kind = "alarm"
       THEN /\ status' = [status EXCEPT !.state = "Alarm"]
            /\ UNCHANGED <<wco_cached, settings, g28_pos>>
       ELSE IF line.kind = "g28"
       THEN /\ g28_pos' = CoordsToPos(line.coords)
            /\ UNCHANGED <<status, wco_cached, settings>>
       ELSE IF line.kind = "setting"
       THEN /\ settings' = [settings EXCEPT !["$131"] = line.coords[1]]
            /\ UNCHANGED <<status, wco_cached, g28_pos>>
       ELSE UNCHANGED <<status, wco_cached, settings, g28_pos>>

\* _handle_line, the response queue: a terminator is put on the queue, which
\* wakes the oldest suspended get.  (first: the ghost of the callers.)
Enqueue(line) ==
    IF Terminates(line)
    THEN /\ response_queue' = Append(response_queue, [kind |-> line.kind, id |-> line.id])
         /\ getters' = IF getters = <<>> THEN getters ELSE Tail(getters)
         /\ callers' =
              [c \in Callers |->
                 LET r == callers[c]
                     seen == IF r.pc \in {"bcast", "ready", "get"} /\ r.first = 0
                             THEN [r EXCEPT !.first = line.id]
                             ELSE r
                 IN  IF getters # <<>> /\ c = Head(getters)
                     THEN [seen EXCEPT !.pc = "ready"]
                     ELSE seen]
    ELSE UNCHANGED <<response_queue, getters, callers>>

\* The lines that _handle_line broadcasts, and awaits, after it has dealt with
\* them: the status, the error response, the alarm
Announces(line) == line.kind \in {"status", "error", "alarm"}

\* _handle_line from its serial_read broadcast on; the probe broadcast is a
\* task of its own and is not awaited
HandleLine(line) ==
    /\ Absorb(line)
    /\ Enqueue(line)
    /\ probe_tasks' = IF BroadcastSuspends /\ line.kind = "probe" THEN TRUE
                      ELSE probe_tasks
    /\ read_loop' = IF BroadcastSuspends /\ Announces(line)
                    THEN [pc |-> "post", line |-> line]
                    ELSE [pc |-> "read", line |-> NoLine]

\* _read_loop takes the next line off the serial port and calls _handle_line,
\* which broadcasts it as serial_read first
ReadLine(line) ==
    /\ connected
    /\ read_loop.pc = "read"
    /\ line \in NextLines
    /\ wire' = Answered(line)
    /\ IF BroadcastSuspends
       THEN /\ read_loop' = [pc |-> "serial_read", line |-> line]
            /\ UNCHANGED <<machineVars, macroVars, engineVars, linkVars, response_queue, getters, callers, probe_tasks>>
       ELSE HandleLine(line)
    /\ UNCHANGED <<connected, writes, streamVars, wsVars, clients, stalled>>

\* the serial_read broadcast returned
AfterSerialRead ==
    /\ read_loop.pc = "serial_read"
    /\ BroadcastReturns
    /\ HandleLine(read_loop.line)
    /\ UNCHANGED <<connected, wire, writes, streamVars, wsVars, clients, stalled>>

\* the broadcast of the status, of the error response or of the alarm returned
AfterAnnounce ==
    /\ read_loop.pc = "post"
    /\ BroadcastReturns
    /\ read_loop' = [pc |-> "read", line |-> NoLine]
    /\ UNCHANGED <<connected, wire, writes, response_queue, getters, callers>>
    /\ UNCHANGED <<machineVars, macroVars, engineVars, linkVars, streamVars, wsVars, hubVars>>

\* The broadcast task made by _parse_probe ends
ProbeBroadcastDone ==
    /\ probe_tasks
    /\ BroadcastReturns
    /\ probe_tasks' = FALSE
    /\ UNCHANGED <<machineVars, macroVars, engineVars, linkVars, streamVars, wsVars, protoVars, clients, stalled>>

\* handle_client, finally: the socket is discarded
ClientDisconnect(c) ==
    /\ c \in clients
    /\ clients' = clients \ {c}
    /\ stalled' = stalled \ {c}
    /\ UNCHANGED <<machineVars, macroVars, engineVars, linkVars, streamVars, wsVars, protoVars, probe_tasks>>

\* ------------------------------------------------------------------------
\* Specification of the protocol engine and the hub
\* ------------------------------------------------------------------------
NextProto ==
    \/ \E c \in Callers : Connect(c)
    \/ \E c \in Callers : SendCommand(c)
    \/ \E c \in Callers : SerialWriteDone(c)
    \/ \E c \in Callers : QueueGet(c)
    \/ \E c \in Callers : Timeout(c)
    \/ \E c \in Callers : SendNowait(c)
    \/ \E c \in Callers : NowaitDone(c)
    \/ \E line \in NextLines : ReadLine(line)
    \/ AfterSerialRead
    \/ AfterAnnounce
    \/ ProbeBroadcastDone
    \/ \E c \in Clients \ {Operator} : ClientConnect(c)
    \/ \E c \in Clients \ {Operator} : ClientStall(c)
    \/ \E c \in Clients \ {Operator} : ClientDisconnect(c)

SpecProto == Init /\ [][NextProto]_vars

\* The send_command calls that have written their line and have not returned
Outstanding == {c \in Callers : callers[c].pc \in {"bcast", "ready", "get"}}

\* C1: at most one send_command is between its serial write and its return.
C1_OneCommandOutstanding == Cardinality(Outstanding) <= 1

\* C2: the terminator that a send_command returns is the first one that the
\* read loop has put on the response queue since the call's write.
C2_FirstTerminatorReturned ==
    [][\A c \in Callers :
          (response_queue # <<>> /\ QueueGet(c)) =>
              Head(response_queue).id = callers[c].first]_vars

\* C3: the terminator that send_command(L) returns is the controller's answer
\* to L.
C3_TerminatorAnswersTheLine ==
    [][\A c \in Callers :
          (response_queue # <<>> /\ QueueGet(c)) =>
              Head(response_queue).id = callers[c].line]_vars

\* A step in which _handle_line deals with line (past its serial_read broadcast)
HandlesNow(line) ==
    \/ ~BroadcastSuspends /\ ReadLine(line)
    \/ read_loop.pc = "serial_read" /\ read_loop.line = line /\ AfterSerialRead

\* C4: a status report, an alarm, a probe result, a setting, a stored position
\* or the banner leaves the response queue and every caller as they were, and
\* still has its effect: the state is updated and the report is broadcast (an
\* alarm sets the state to Alarm).  A suspended get is woken only by a step
\* that puts an ok or an error on the response queue.
C4_OnlyTerminatorsComplete ==
    /\ [][\A line \in AsyncLines :
            HandlesNow(line) =>
                /\ response_queue' = response_queue
                /\ getters' = getters
                /\ callers' = callers
                /\ line.kind = "alarm" => status'.state = "Alarm"
                /\ line.kind = "status" =>
                      /\ status'.state = line.state
                      /\ status'.mpos = CoordsToPos(line.coords)
                      /\ status'.wpos = WorkPos(status'.mpos, wco_cached')
                /\ line.kind = "setting" => settings'["$131"] = line.coords[1]
                /\ line.kind = "g28" => g28_pos' = CoordsToPos(line.coords)
                /\ (BroadcastSuspends /\ line.kind \in {"status", "alarm"}) =>
                      read_loop' = [pc |-> "post", line |-> line]
                /\ (BroadcastSuspends /\ line.kind = "probe") => probe_tasks']_vars
    /\ [][\A c \in Callers :
            (callers[c].pc = "get" /\ callers'[c].pc = "ready") =>
                /\ Len(response_queue') = Len(response_queue) + 1
                /\ response_queue'[Len(response_queue')].kind \in {"ok", "error"}]_vars

\* An alarm has been handled and is being broadcast while a send_command is
\* suspended on the empty response queue
C4_Witness ==
    /\ \E c \in Callers : callers[c].pc = "get"
    /\ response_queue = <<>>
    /\ read_loop = [pc |-> "post", line |-> Line("alarm", 0, "", <<>>)]
    /\ status.state = "Alarm"

\* C6: no send_command times out while its terminator, which the read loop
\* has read, is held back by the broadcast to a subscriber whose send does not
\* complete.
C6_StalledSubscriberDoesNotBlock ==
    [][\A c \in Callers :
          Timeout(c) =>
              ~(/\ stalled # {}
                /\ read_loop.pc = "serial_read"
                /\ read_loop.line.kind \in {"ok", "error"}
                /\ read_loop.line.id = callers[c].line)]_vars

\* ------------------------------------------------------------------------
\* The recovery file
\* ------------------------------------------------------------------------
\* C11: the recovery record on disk, if there is one, has a cursor between 0
\* and the total number of lines, and a timestamp.
C11_RecoveryRecordWellFormed ==
    recovery # NoRecovery =>
        /\ 0 <= recovery.current
        /\ recovery.current <= recovery.total
        /\ recovery.timestamp

\* The key=value lines of a record in the order _save_recovery writes them:
\* file, total, current, timestamp.  Torn(rec, n) is the file when only the
\* first n of them have reached the disk: open(.., 'w') has emptied the file,
\* and what was written is on disk only as far as it was flushed.
Torn(rec, n) ==
    [file |-> IF n >= 1 THEN rec.file ELSE NoRecovery.file,
     total |-> IF n >= 2 THEN rec.total ELSE NoRecovery.total,
     current |-> IF n >= 3 THEN rec.current ELSE NoRecovery.current,
     timestamp |-> FALSE]

\* How many lines of a torn record can be on disk
TornLengths == 0..3

\* The process is killed inside _save_recovery (called by stop() here) when n
\* lines have reached the disk, and the server is started again: every object
\* is as constructed, the disk is as the crash left it.
CrashInSave(n) ==
    /\ recovery' = Torn(RecoveryRecord(filename, total_lines, current_line), n)
    /\ filename' = ""
    /\ lines' = <<>>
    /\ total_lines' = 0
    /\ current_line' = 0
    /\ running' = FALSE
    /\ paused' = FALSE
    /\ stop_flag' = FALSE
    /\ loops' = [pc \in LoopPcs |-> 0]
    /\ flight' = NoFlight
    /\ run' = NoRun
    /\ status' = InitStatus
    /\ wco_cached' = ZeroPos
    /\ settings' = [k \in {"$130", "$131"} |-> Absent]
    /\ g28_pos' = ZeroPos
    /\ motion' = "none"
    /\ UNCHANGED <<macroVars, engineVars, linkVars, wsVars, protoVars, hubVars>>

NextCrash ==
    \/ NextStream
    \/ \E n \in TornLengths : CrashInSave(n)

SpecCrash == Init /\ [][NextCrash]_vars

\* C12: a recovery save is atomic: whatever happens, a crash during the save
\* included, a step leaves on disk either the record that was there or the
\* complete record of the streamer's state.
C12_RecoverySaveIsAtomic ==
    [][\/ recovery' = recovery
       \/ recovery' = RecoveryRecord(filename, total_lines, current_line)]_vars

\* ------------------------------------------------------------------------
\* Runs of the streamer
\* ------------------------------------------------------------------------
\* The program lines among what has been handed to send_command since the
\* last accepted start
IsLineIndex(c) == c >= 0

ProgramSent == SelectSeq(run.sent, IsLineIndex)

\* The indices from, from + 1, ... (n of them), in order
IndicesFrom(from, n) == [k \in 1..n |-> from + k - 1]

\* A start has been accepted and every task has ended
RunEnded == run.from >= 0 /\ LiveLoops = 0

\* C13: when a run was stopped and its task has exited, the cursor in the
\* recovery record counts the lines dispatched: the lines from the start
\* cursor up to it were dispatched once each, in order.  A start that asks to
\* skip the check is never refused by the gate, and when a run ends without a
\* stop, every line from its start cursor to the end was dispatched once.
C13_StoppedCursorCountsDispatched ==
    /\ (RunEnded /\ stop_flag) =>
          /\ recovery.current = run.from + Len(ProgramSent)
          /\ ProgramSent = IndicesFrom(run.from, Len(ProgramSent))
    /\ \A n \in FromLines : StartOutcome(n, TRUE) # "gate"
    /\ (RunEnded /\ ~stop_flag) =>
          ProgramSent = IndicesFrom(run.from, Max(0, total_lines - run.from))

\* The events of C14 as steps: a load, a pause, a stop, the dispatch of a line
\* whose index is a multiple of N, and the completion of the program
LoadStep == \E f \in FileNames, c \in Contents : LoadFile(f, c)

NthLineStep ==
    /\ current_line % RECOVERY_SAVE_INTERVAL = 0
    /\ loops'["file_status"] = loops["file_status"] + 1

CompletionStep == loops'["home_status"] = loops["home_status"] + 1

\* C14: each of these events writes a recovery record: after the step the
\* file holds the record of the streamer's state.
C14_RecoveryWrittenAtEachEvent ==
    [][(LoadStep \/ Pause \/ Stop \/ NthLineStep \/ CompletionStep)
         => recovery' = RecoveryRecord(filename', total_lines', current_line')]_vars

\* What has been handed to send_command since the last accepted start
SinceStart == SubSeq(run.sent, run.held + 1, Len(run.sent))

\* C15: a run started at the last line ends after one program line has been
\* dispatched, and a run started at from_line = total sends no command to
\* the controller.
C15_StartAtTheEnd ==
    /\ (run.from >= 0 /\ run.from = total_lines) => SinceStart = <<>>
    /\ (RunEnded /\ ~stop_flag /\ run.from = total_lines - 1) =>
          SelectSeq(SinceStart, IsLineIndex) = <<total_lines - 1>>

\* A task that holds the line of index i gets an error result, and a task
\* that holds it comes back from its file_status broadcast
ErrorResultFor(i) == flight'["file_error"][i] = flight["file_error"][i] + 1

IterationEndsFor(i) == flight'["file_status"][i] = flight["file_status"][i] - 1

\* C16: an error result for line i does not end the run: the task goes on to
\* one file_error broadcast that names line i + 1, and its iteration ends with
\* the cursor one further and the task back at the head of the loop.
C16_ErrorDoesNotAbort ==
    [][\A i \in LineIndices :
          /\ ErrorResultFor(i) =>
                /\ ErrorLineNamed = i + 1
                /\ loops'["file_error"] = loops["file_error"] + 1
                /\ running' = running /\ stop_flag' = stop_flag
                /\ current_line' = current_line
          /\ IterationEndsFor(i) =>
                /\ current_line' = current_line + 1
                /\ loops'["top"] = loops["top"] + 1]_vars

\* How many tasks hold a line: each of them adds one to the cursor when its
\* iteration ends
HeldLines == Len(HeldFrom(0))

\* A task takes the line of index i and hands it to send_command
DispatchOf(i) == flight'["sending"][i] = flight["sending"][i] + 1

\* C17: while the streamer is paused no task takes a new line, so between a
\* pause and the next resume the cursor advances by one at most, for the line
\* that was in flight: at most one task holds a line while paused.  A line
\* that is dispatched is the line at the cursor, and the streamer is not
\* paused then.
C17_PausedDispatchesNothing ==
    /\ [](paused => HeldLines <= 1)
    /\ [][(paused /\ paused') => \A i \in LineIndices : ~DispatchOf(i)]_vars
    /\ [][\A i \in LineIndices : DispatchOf(i) => (i = current_line /\ ~paused)]_vars

\* ------------------------------------------------------------------------
\* Specification of the streamer with the controller: the link is open, the
\* machine moves when a move is written to it, and a status report tells
\* what the machine does when the report is made.  Runs are started and
\* stopped; pausing is left to SpecStream.
\* ------------------------------------------------------------------------
InitRun ==
    /\ InitMachine
    /\ InitStreamer
    /\ InitServer
    /\ InitMacros
    /\ connected = TRUE
    /\ wire = <<>>
    /\ writes = 0
    /\ response_queue = <<>>
    /\ getters = <<>>
    /\ callers = [c \in Callers |-> IdleCaller]
    /\ read_loop = [pc |-> "read", line |-> NoLine]

\* The controller's answer to a status query of _poll_status is absorbed:
\* Run while a move is under way, Idle otherwise
Report(line) ==
    /\ connected
    /\ (line.state = "Idle") <=> (motion = "none")
    /\ AbsorbStatus(line)

\* The machine arrives where the last move sent it
MotionDone ==
    /\ motion = "moving"
    /\ motion' = "none"
    /\ UNCHANGED <<status, wco_cached, settings, g28_pos>>
    /\ UNCHANGED <<macroVars, engineVars, linkVars, streamVars, wsVars, protoVars, hubVars>>

NextRun ==
    \/ \E line \in StreamStatusLines : Report(line)
    \/ MotionDone
    \/ \E f \in FileNames, c \in Contents :
          LoadFile(f, c) /\ UNCHANGED <<machineVars, macroVars, engineVars, linkVars, wsVars, protoVars, hubVars>>
    \/ \E n \in FromLines, b \in BOOLEAN :
          Start(n, SkipCheck(n, b))
          /\ UNCHANGED <<machineVars, macroVars, engineVars, linkVars, wsVars, protoVars, hubVars>>
    \/ Stop /\ UNCHANGED <<machineVars, macroVars, engineVars, linkVars, wsVars, protoVars, hubVars>>
    \/ StreamTop
    \/ \E r \in {"ok", "error"} : StreamResult(r)
    \/ StreamAfterError
    \/ StreamAdvance
    \/ \E pc \in HomePcs : StreamHome(pc)

SpecRun == InitRun /\ [][NextRun]_vars

\* A task reaches pc of the completion phase
Reaches(pc) == loops'[pc] = loops[pc] + 1

\* and the await it comes from
HomePrev(pc) == CHOOSE q \in HomePcs : HomeNext(q) = pc

\* C18: on completion the task sends M5, then the Z move, then the X/Y move,
\* then broadcasts file_done, each from the step before; the X/Y move is
\* written only when the machine has finished the Z move, and file_done is
\* broadcast only when it has finished the X/Y move.
C18_CompletionWaitsForEachMove ==
    /\ [][\A pc \in HomePcs \ {"home_status"} :
             Reaches(pc) => loops'[HomePrev(pc)] = loops[HomePrev(pc)] - 1]_vars
    /\ [][(Reaches("home_xy") \/ Reaches("file_done")) => motion = "none"]_vars

\* ------------------------------------------------------------------------
\* MacroEngine._wait_idle
\* ------------------------------------------------------------------------
Min(a, b) == IF a < b THEN a ELSE b

Waiting(pc, e, left) == [pc |-> pc, elapsed |-> e, left |-> left]

\* The second loop from its test on, when e milliseconds have passed: the
\* call raises on the timeout or on cancel_flag, returns when the state is
\* Idle, and sleeps otherwise
WaitFinish_AnyState(e, left) ==
    IF e >= WAIT_IDLE_TIMEOUT THEN Waiting("timeout", e, left)
    ELSE IF cancel_flag THEN Waiting("cancelled", e, left)
    ELSE IF status.state # "Run" THEN Waiting("returned", e, left)
    ELSE Waiting("finish", e, left)

WaitFinish(e, left) ==
    IF e >= WAIT_IDLE_TIMEOUT THEN Waiting("timeout", e, left)
    ELSE IF cancel_flag THEN Waiting("cancelled", e, left)
    ELSE IF status.state = "Idle" THEN Waiting("returned", e, left)
    ELSE Waiting("finish", e, left)

\* The first loop from its test on: past its bound it is left, within it the
\* call raises on cancel_flag, leaves the loop when the state is not Idle,
\* and sleeps otherwise.  The second loop follows with no await in between.
WaitLeave(e) ==
    IF e >= LEAVE_IDLE_BOUND THEN WaitFinish(e, FALSE)
    ELSE IF cancel_flag THEN Waiting("cancelled", e, FALSE)
    ELSE IF status.state # "Idle" THEN WaitFinish(e, TRUE)
    ELSE Waiting("leave", e, FALSE)

\* The time that has passed when a sleep of the given length ends: the length
\* or more, as the event loop gets to the task
Delays(sleep) == {sleep * k : k \in 1..MaxDelay}

\* time.time() - start after a sleep; past the timeout every value does the same
Later(d) == Min(wait_idle.elapsed + d, WAIT_IDLE_TIMEOUT)

\* run_macro: a macro starts (one macro at a time here)
RunMacro ==
    /\ wait_idle.pc \notin {"leave", "finish"}
    /\ cancel_flag' = FALSE
    /\ wait_idle' = Waiting("body", 0, FALSE)
    /\ UNCHANGED <<machineVars, engineVars, linkVars, streamVars, wsVars, protoVars, hubVars>>

\* cancel()
Cancel ==
    /\ cancel_flag' = TRUE
    /\ UNCHANGED wait_idle
    /\ UNCHANGED <<machineVars, engineVars, linkVars, streamVars, wsVars, protoVars, hubVars>>

\* The macro calls _wait_idle(): up to the first await
WaitIdleCall ==
    /\ wait_idle.pc \in {"body", "returned"}
    /\ wait_idle' = WaitLeave(0)
    /\ UNCHANGED cancel_flag
    /\ UNCHANGED <<machineVars, engineVars, linkVars, streamVars, wsVars, protoVars, hubVars>>

\* The sleep of the first loop ends
WakeLeave(d) ==
    /\ wait_idle.pc = "leave"
    /\ wait_idle' = WaitLeave(Later(d))
    /\ UNCHANGED cancel_flag
    /\ UNCHANGED <<machineVars, engineVars, linkVars, streamVars, wsVars, protoVars, hubVars>>

\* The sleep of the second loop ends
WakeFinish(d) ==
    /\ wait_idle.pc = "finish"
    /\ wait_idle' = WaitFinish(Later(d), wait_idle.left)
    /\ UNCHANGED cancel_flag
    /\ UNCHANGED <<machineVars, engineVars, linkVars, streamVars, wsVars, protoVars, hubVars>>

\* A status report of the controller is absorbed
StatusArrives(line) == connected /\ AbsorbStatus(line)

NextWait ==
    \/ \E line \in StreamStatusLines : StatusArrives(line)
    \/ RunMacro
    \/ Cancel
    \/ WaitIdleCall
    \/ \E d \in Delays(LEAVE_IDLE_SLEEP) : WakeLeave(d)
    \/ \E d \in Delays(WAIT_IDLE_SLEEP) : WakeFinish(d)

SpecWait == InitRun /\ [][NextWait]_vars

\* The call of _wait_idle returns in this step
WaitReturns == wait_idle.pc # "returned" /\ wait_idle'.pc = "returned"

\* C19: when _wait_idle returns, the state it has just read is Idle, and it
\* is the state at the return: the step that returns changes no machine state.
C19_IdleAtTheReturn ==
    [][WaitReturns => (status.state = "Idle" /\ status' = status)]_vars

\* A call has seen the machine leave Idle, waited through the second loop and
\* returned with the machine Idle
C19_Witness ==
    /\ wait_idle.pc = "returned"
    /\ wait_idle.left
    /\ wait_idle.elapsed >= WAIT_IDLE_SLEEP
    /\ status.state = "Idle"

\* C20: the call returns only if the state left Idle in the first loop; when
\* the first loop runs out with the state still Idle, or the second loop
\* reaches the timeout, the call raises.
C20_FailsUnlessMotionBegan ==
    /\ wait_idle.pc = "returned" => wait_idle.left
    /\ wait_idle.pc \in {"leave", "finish", "returned"} =>
          wait_idle.elapsed < WAIT_IDLE_TIMEOUT

\* ------------------------------------------------------------------------
\* MacroEngine: run_macro and the macro files
\* ------------------------------------------------------------------------
\* A statement of a macro file, by the call of the engine it makes
Do(op) == [op |-> op, on |-> FALSE, skip |-> 0, cmd |-> ""]

\* _send_and_log(cmd), for the commands that set a mode of the controller
Cmd(cmd) == [op |-> "send", on |-> FALSE, skip |-> 0, cmd |-> cmd]

\* A branch over the next skip statements (if_room: taken when the raise of
\* probe_z.py is not positive; jump: the end of the if-part)
Branch(op, skip) == [op |-> op, on |-> FALSE, skip |-> skip, cmd |-> ""]

\* `if self.grbl.last_probe['success']:` (on) or `if not ...:` (~on), with a
\* body of skip statements that ends in return
IfProbe(on, skip) == [op |-> "if_probe", on |-> on, skip |-> skip, cmd |-> ""]

\* macros/tool_measure.py
ToolMeasure ==
    <<Do("wait_idle"), Do("log"), Do("log"), Do("send"), Do("wait_idle"), Do("log"),
      Do("send"), Do("log"), Do("warn"), Do("send"), Do("wait_idle"),
      Do("send"), Do("send"), Do("wait_idle"),
      Do("send"), Do("send"), Do("wait_idle"), Do("send"), Do("wait_idle"), Do("send"),
      Do("record_z"), Do("log"), Do("send"), Do("wait_idle"), Do("send"),
      Do("send"), Do("wait_idle"), Do("send"), Do("wait_idle"), Do("log")>>

\* macros/tool_change.py
ToolChange ==
    <<Do("need_setz"), Do("wait_idle"), Do("log"), Do("log"), Do("send"), Do("wait_idle"),
      Do("log"), Do("send"), Do("wait_idle"), Do("log"), Do("wait_continue"), Do("log"),
      Do("send"), Do("log"), Do("warn"), Do("send"), Do("wait_idle"),
      Do("send"), Do("send"), Do("wait_idle"),
      Do("send"), Do("send"), Do("wait_idle"), Do("send"), Do("wait_idle"), Do("send"),
      Do("log"), Do("update_z"), Do("log"), Do("send"), Do("wait_idle"), Do("send"),
      Do("send"), Do("wait_idle"), Do("send"), Do("wait_idle"), Do("log")>>

\* macros/probe_x.py
ProbeX ==
    <<Do("log"), Cmd("G91"), Do("send"), Do("wait_idle"), Do("send"), Do("wait_idle"),
      IfProbe(TRUE, 5), Do("send"), Do("send"), Cmd("G90"), Do("log"), Do("return"),
      Do("send"), Do("wait_idle"),
      IfProbe(FALSE, 5), Do("send"), Do("send"), Cmd("G90"), Do("log"), Do("return"),
      Do("send"), Do("send"), Do("wait_idle"), Cmd("G90"), Do("send"),
      Cmd("G91"), Do("send"), Do("send"), Do("send"), Cmd("G90"), Do("log"), Do("log")>>

\* macros/probe_z.py
ProbeZ ==
    <<Do("wait_idle"), Do("log"), Cmd("G91"), Do("send"), Do("wait_idle"),
      Do("send"), Do("wait_idle"), Do("send"), Do("wait_idle"), Do("send"),
      Branch("if_room", 3), Do("send"), Do("log"), Branch("jump", 1), Do("log"),
      Cmd("G90"), Do("log"), Do("log")>>

\* macros/safety_probe_fixture.py, up to the first poll of probe_direction.
\* grbl.status is a MachineStatus: status['wpos'] (line 19) raises TypeError
\* and status.get (line 41) AttributeError, so that no statement after either
\* is reached.
ProbeFixture ==
    <<Do("log"), Cmd("$21=0"), Do("nap"), Do("subscript"),
      Do("send"), Do("wait_idle"), Do("log"), Cmd("G91"), Do("send"), Do("nap"),
      Do("subscript")>>

\* The names a macro_run message can carry: three of the files, and a name
\* that has no file
MacroNames == {"tool_measure", "tool_change", "probe_x", "missing"}

\* macros/safety_add_fixture.py: it reads the work position, logs it, and logs
\* 'Fixture added' and 'COMPLETE'; storing the fixture is left as a TODO
AddFixture == <<Do("log"), Do("log"), Do("log")>>

Program(name) ==
    IF name = "tool_measure" THEN ToolMeasure
    ELSE IF name = "tool_change" THEN ToolChange
    ELSE IF name = "probe_x" THEN ProbeX
    ELSE IF name = "probe_z" THEN ProbeZ
    ELSE IF name = "safety_probe_fixture" THEN ProbeFixture
    ELSE IF name = "safety_add_fixture" THEN AddFixture
    ELSE <<>>

\* What a command written to the controller makes of its modes
Obey(m, cmd) ==
    IF cmd = "$21=0" THEN [m EXCEPT !.limits = FALSE]
    ELSE IF cmd = "$21=1" THEN [m EXCEPT !.limits = TRUE]
    ELSE IF cmd = "G91" THEN [m EXCEPT !.relative = TRUE]
    ELSE IF cmd = "G90" THEN [m EXCEPT !.relative = FALSE]
    ELSE m

\* What the engine holds while a task runs between two awaits: z and done are
\* probe_work_z and set_z_done, flag is cancel_flag
Engine(flag) == [z |-> probe_work_z, done |-> set_z_done, flag |-> flag]

\* The task suspends in `at` at statement n; clear: continue_event.clear() was called
Arrive(n, at, e) == [pc |-> n, at |-> at, z |-> e.z, done |-> e.done, clear |-> FALSE]

\* An exception leaves the macro file: run_macro logs it
Raise(e) == Arrive(0, "elog", e)

\* `not self.set_z_done or self.probe_work_z is None` does not hold
Measured_Always(e) == TRUE

Measured(e) == e.done /\ e.z # None

\* continue_event.clear(): the value of the event after it
EventCleared_Kept == continue_event

EventCleared == FALSE

\* The task runs on from statement n of prog to its next await.  _wait_idle
\* and _wait_for_continue test the cancel flag before their first await, and
\* _wait_idle then sleeps at least once; _send_and_log and _log test nothing.
RECURSIVE Proceed(_, _, _)
Proceed(prog, n, e) ==
    IF n > Len(prog) THEN Arrive(0, "report_done", e)
    ELSE LET s == prog[n]
         IN  CASE s.op = "log" -> Arrive(n, "log", e)
               [] s.op = "send" -> Arrive(n, "slog", e)
               [] s.op = "wait_idle" ->
                     IF e.flag THEN Raise(e) ELSE Arrive(n, "sleep", e)
               [] s.op = "wait_continue" ->
                     IF e.flag THEN Raise(e)
                     ELSE [Arrive(n, "notify", e) EXCEPT !.clear = TRUE]
               [] s.op = "need_setz" ->
                     IF Measured(e) THEN Proceed(prog, n + 1, e) ELSE Arrive(n, "log", e)
               [] s.op = "warn" ->
                     IF g28_pos.x = 0 /\ g28_pos.y = 0 /\ g28_pos.z = 0
                     THEN Arrive(n, "log", e) ELSE Proceed(prog, n + 1, e)
               [] s.op = "record_z" ->
                     Proceed(prog, n + 1, [e EXCEPT !.z = <<status.mpos.z>>, !.done = TRUE])
               [] s.op = "update_z" ->
                     Proceed(prog, n + 1, [e EXCEPT !.z = <<status.mpos.z>>])
               [] s.op = "if_probe" ->
                     IF last_probe = Missing THEN Raise(e)
                     ELSE IF last_probe[1].success = s.on THEN Proceed(prog, n + 1, e)
                     ELSE Proceed(prog, n + 1 + s.skip, e)
               [] s.op = "return" -> Arrive(0, "report_done", e)
               [] s.op = "nap" -> Arrive(n, "nap", e)
               [] s.op = "subscript" -> Raise(e)
               [] s.op = "if_room" ->
                     IF Abs(status.mpos.z) - 1 > 0 THEN Proceed(prog, n + 1, e)
                     ELSE Proceed(prog, n + 1 + s.skip, e)
               [] s.op = "jump" -> Proceed(prog, n + 1 + s.skip, e)

\* The awaits inside a macro file, and those of its two waits
FileAwaits == {"log", "slog", "resp", "sleep", "notify", "event", "nap"}

WaitAwaits == {"sleep", "notify", "event"}

\* Task t goes on as a (a result of Proceed) says
GoOn(t, a) ==
    /\ macros' = [macros EXCEPT ![t].pc = a.pc, ![t].at = a.at,
                                ![t].released = FALSE,
                                ![t].signalled = FALSE]
    /\ probe_work_z' = a.z
    /\ set_z_done' = a.done
    /\ continue_event' = IF a.clear THEN EventCleared ELSE continue_event

\* handle_message, macro_run: a task is created for run_macro(name)
MacroRun(name) ==
    /\ \E t \in Slots : macros[t].at = "free"
    /\ LET t == IF macros["t1"].at = "free" THEN "t1" ELSE "t2"
       IN  macros' = [macros EXCEPT ![t] = [FreeTask EXCEPT !.name = name, !.at = "created"]]
    /\ UNCHANGED <<continue_event, probe_work_z, set_z_done, macro_running, modal>>
    /\ UNCHANGED <<machineVars, macroVars, linkVars, streamVars, wsVars, protoVars, hubVars>>

\* run_macro up to its first await: the flags are set, and the macro file is
\* run if there is one
MacroBegin(t) ==
    /\ macros[t].at = "created"
    /\ macro_running' = TRUE
    /\ cancel_flag' = FALSE
    /\ IF macros[t].name = "missing"
       THEN GoOn(t, Raise(Engine(FALSE)))
       ELSE GoOn(t, Proceed(Program(macros[t].name), 1, Engine(FALSE)))
    /\ UNCHANGED <<wait_idle, modal>>
    /\ UNCHANGED <<machineVars, linkVars, streamVars, wsVars, protoVars, hubVars>>

\* What a sleep of _wait_idle wakes to: the state is Idle in the second loop,
\* or the time is up (a further sleep changes nothing)
WakeOutcomes == {"idle", "timeout"}

\* Task t is resumed from its await and runs to its next one; o is what a
\* sleep of _wait_idle wakes to
MacroWake(t, o) ==
    LET r == macros[t]
        prog == Program(r.name)
        e == Engine(cancel_flag)
        on == Proceed(prog, r.pc + 1, e)
    IN  /\ r.at \in FileAwaits \cup {"elog", "report_error", "report_done"}
        /\ r.at = "sleep" \/ o = "idle"
        /\ r.at = "event" => r.released
        /\ macro_running' = IF r.at \in {"report_error", "report_done"} THEN FALSE
                            ELSE macro_running
        /\ modal' = IF r.at = "slog" /\ connected THEN Obey(modal, prog[r.pc].cmd)
                     ELSE modal
        /\ CASE r.at = "log" ->
                  GoOn(t, IF prog[r.pc].op = "need_setz" THEN Raise(e) ELSE on)
             [] r.at = "slog" ->
                  GoOn(t, IF connected THEN Arrive(r.pc, "resp", e) ELSE on)
             [] r.at \in {"resp", "nap"} -> GoOn(t, on)
             [] r.at = "sleep" ->
                  GoOn(t, IF o = "timeout" \/ cancel_flag THEN Raise(e) ELSE on)
             [] r.at = "notify" ->
                  IF continue_event
                  THEN GoOn(t, IF cancel_flag THEN Raise(e) ELSE on)
                  ELSE /\ macros' = [macros EXCEPT ![t].at = "event", ![t].released = FALSE]
                       /\ UNCHANGED <<continue_event, probe_work_z, set_z_done>>
             [] r.at = "event" -> GoOn(t, IF cancel_flag THEN Raise(e) ELSE on)
             [] r.at = "elog" -> GoOn(t, Arrive(0, "report_error", e))
             [] OTHER ->
                  /\ macros' = [macros EXCEPT ![t] = FreeTask]
                  /\ UNCHANGED <<continue_event, probe_work_z, set_z_done>>
        /\ UNCHANGED <<machineVars, macroVars, linkVars, streamVars, wsVars, protoVars, hubVars>>

\* continue_event.set(): the tasks in wait() are resolved
EventSet(cancelling) ==
    [t \in Slots |->
        LET r == macros[t]
        IN  [r EXCEPT !.released = @ \/ r.at = "event",
                      !.signalled = @ \/ r.at \in {"notify", "event"},
                      !.cancelled = IF ~cancelling \/ r.at \notin FileAwaits THEN @
                                    ELSE IF r.at \in WaitAwaits THEN "wait"
                                    ELSE IF @ = "wait" THEN @ ELSE "other"]]

\* handle_message, macro_continue: continue_macro()
MacroContinue ==
    /\ continue_event' = TRUE
    /\ macros' = EventSet(FALSE)
    /\ UNCHANGED <<probe_work_z, set_z_done, macro_running, modal>>
    /\ UNCHANGED <<machineVars, macroVars, linkVars, streamVars, wsVars, protoVars, hubVars>>

\* handle_message, macro_cancel: cancel()
MacroCancel ==
    /\ cancel_flag' = TRUE
    /\ continue_event' = TRUE
    /\ macros' = EventSet(TRUE)
    /\ UNCHANGED <<wait_idle, probe_work_z, set_z_done, macro_running, modal>>
    /\ UNCHANGED <<machineVars, linkVars, streamVars, wsVars, protoVars, hubVars>>

\* A connected controller and one client, so that every broadcast suspends
InitEngine ==
    /\ InitMachine
    /\ InitStreamer
    /\ InitMacros
    /\ connected = TRUE
    /\ wire = <<>>
    /\ writes = 0
    /\ response_queue = <<>>
    /\ getters = <<>>
    /\ callers = [c \in Callers |-> IdleCaller]
    /\ read_loop = [pc |-> "read", line |-> NoLine]
    /\ clients = {Operator}
    /\ stalled = {}
    /\ probe_tasks = FALSE
    /\ ws_out = NoReply
    /\ start_call = NoReply

NextMacro ==
    \/ \E name \in MacroNames : MacroRun(name)
    \/ \E t \in Slots : MacroBegin(t)
    \/ \E t \in Slots, o \in WakeOutcomes : MacroWake(t, o)
    \/ MacroContinue
    \/ MacroCancel

SpecMacro == InitEngine /\ [][NextMacro]_vars

\* Task t runs: it is resumed from one await and suspends in the next
Steps(t) == macros'[t].at # macros[t].at \/ macros'[t].pc # macros[t].pc

\* The suspension points of a macro at which a cancellation is looked for:
\* command submission, wait-idle, wait-continue
CancelPoints == {"slog", "resp", "sleep", "notify", "event"}

\* C21: once cancel() has been called while a macro is in its file, the macro
\* raises as soon as it runs on from command submission, wait-idle or
\* wait-continue; in particular it writes no command (slog to resp).
C21_CancelStopsAtNextSuspension ==
    [][\A t \in Slots :
          (Steps(t) /\ macros[t].cancelled # "no" /\ macros[t].at \in CancelPoints) =>
              macros'[t].at = "elog"]_vars

\* C22: a macro that was suspended in wait-idle or wait-continue when cancel()
\* was called leaves that wait by raising, whatever messages came in between.
C22_CancelledWaitEndsInError ==
    [][\A t \in Slots :
          (Steps(t) /\ macros[t].cancelled = "wait" /\ macros[t].at \in WaitAwaits) =>
              macros'[t].at = "elog"]_vars

\* C23: a macro leaves wait-continue only if continue_macro() or cancel() was
\* called since it entered it, it raises if the cancel flag is set when it
\* wakes, and it writes no command from inside the wait.
C23_WaitContinueHolds ==
    [][\A t \in Slots :
          (Steps(t) /\ macros[t].at \in {"notify", "event"}) =>
              /\ macros'[t].at # "resp"
              /\ macros'[t].at \notin {"notify", "event"} =>
                    /\ macros[t].signalled
                    /\ cancel_flag => macros'[t].at = "elog"]_vars

\* A tool change has been continued and goes on to zero the work Z
C23_Witness ==
    \E t \in Slots :
        /\ macros[t].name = "tool_change"
        /\ macros[t].pc = 13
        /\ macros[t].at = "slog"
        /\ ~cancel_flag

\* C24: a macro reports macro_done only if it was never cancelled, a task ends
\* only from its terminal broadcast, which it makes once, and running is False
\* when it has ended.
C24_OneTerminalEvent ==
    [][\A t \in Slots :
          Steps(t) =>
              /\ macros'[t].at = "report_done" => macros[t].cancelled = "no"
              /\ macros[t].at \in {"report_done", "report_error"} => macros'[t].at = "free"
              /\ macros'[t].at = "free" =>
                    /\ macros[t].at \in {"report_done", "report_error"}
                    /\ ~macro_running']_vars

\* C25: a tool change begun while set_z_done is False (or probe_work_z None)
\* logs, raises and reports macro_error without a command and without a change
\* to probe_work_z and set_z_done; set_z_done changes only to True, in the step
\* in which tool_measure records probe_work_z.
C25_ToolChangeNeedsToolMeasure ==
    /\ [][\A t \in Slots :
            (MacroBegin(t) /\ macros[t].name = "tool_change"
                           /\ (~set_z_done \/ probe_work_z = None)) =>
                /\ macros'[t].pc = 1
                /\ macros'[t].at = "log"
                /\ UNCHANGED <<probe_work_z, set_z_done>>]_vars
    /\ [][\A t \in Slots :
            (Steps(t) /\ macros[t].name = "tool_change" /\ macros[t].pc = 1) =>
                /\ macros[t].at = "log"
                /\ macros'[t].at = "elog"
                /\ UNCHANGED <<probe_work_z, set_z_done>>]_vars
    /\ [][\A t \in Slots :
            (Steps(t) /\ macros[t].at = "elog") =>
                /\ macros'[t].at = "report_error"
                /\ UNCHANGED <<probe_work_z, set_z_done>>]_vars
    /\ [][set_z_done' # set_z_done =>
            /\ set_z_done'
            /\ probe_work_z' = <<status.mpos.z>>
            /\ \E t \in Slots :
                  /\ macros[t].name = "tool_measure"
                  /\ macros[t].pc = 20
                  /\ macros'[t].pc = 22]_vars

\* A tool change reports its error and tool_measure has recorded nothing
C25_Witness ==
    /\ ~set_z_done
    /\ probe_work_z = None
    /\ \E t \in Slots : macros[t].name = "tool_change" /\ macros[t].at = "report_error"

\* The probe message of _parse_probe: what the report says
ProbeReport(line) ==
    [success |-> line.state = "1", x |-> line.coords[1], y |-> line.coords[2],
     z |-> line.coords[3], a |-> line.coords[4]]

\* C26: when _handle_line has dealt with a probe report, last_probe holds its
\* success flag and its coordinates.
C26_LastProbeHoldsTheReport ==
    [][\A line \in AsyncLines :
          (line.kind = "probe" /\ HandlesNow(line)) => last_probe' = <<ProbeReport(line)>>]_vars

\* ------------------------------------------------------------------------
\* The event loop: the order in which messages reach a socket
\* ------------------------------------------------------------------------
\* The lines of one read of the serial port, and the lines read in all
MaxChunk == 2

MaxRead == 3

LineKinds == {"probe", "ok", "status"}

\* A message of the protocol engine: its type, and the number of the line it is about
Msg(type, n) == [type |-> type, n |-> n]

NoMsg == Msg("", 0)

\* A callback of the event loop.  "wake": the read loop goes on after what it
\* awaited; "probe": the first step of the task made by _parse_probe; "send":
\* the first step of a client.send task made by gather, which writes the frame;
\* "done": gather's callback on the end of one of its tasks.  owner is who
\* awaits the gather.
Callback(op, owner, client, msg) ==
    [op |-> op, owner |-> owner, client |-> client, msg |-> msg]

Wake == Callback("wake", "reader", "", NoMsg)

\* The clients in the order in which broadcast() iterates over them
InOrder(S) == SelectSeq(<<"c1", "c2">>, LAMBDA c : c \in S)

\* asyncio.gather in broadcast(): one task per client, scheduled as it is made
Gather(rdy, owner, msg) ==
    rdy \o [i \in 1..Cardinality(clients) |->
              Callback("send", owner, InOrder(clients)[i], msg)]

\* The lines that _read_loop has handed to _handle_line so far
Handled == Cardinality({i \in 1..Len(emitted) : emitted[i].type = "serial_read"})

\* _read_loop from one suspension to the next.  e is the loop as it stands: its
\* pc and line, its buffer, and the ready queue and emitted messages it adds to.
\* ReadOn: the test of the buffer and, with a line in it, _handle_line up to its
\* serial_read broadcast.  Handle: _handle_line after that broadcast.
RECURSIVE ReadOn(_), Handle(_)
ReadOn(e) ==
    IF e.chunk = <<>>
    THEN [e EXCEPT !.pc = "read", !.line = NoLine]
    ELSE LET line == Head(e.chunk)
             m == Msg("serial_read", line.id)
             s == [e EXCEPT !.chunk = Tail(@), !.line = line,
                            !.emitted = Append(@, m)]
         IN  IF clients = {} THEN Handle(s)
             ELSE [s EXCEPT !.pc = "serial_read", !.ready = Gather(@, "reader", m),
                            !.pending = Cardinality(clients)]

Handle(e) ==
    IF e.line.kind = "status"
    THEN LET m == Msg("status", e.line.id)
             s == [e EXCEPT !.emitted = Append(@, m)]
         IN  IF clients = {} THEN ReadOn(s)
             ELSE [s EXCEPT !.pc = "post", !.ready = Gather(@, "reader", m),
                            !.pending = Cardinality(clients)]
    ELSE IF e.line.kind = "probe"
    THEN LET m == Msg("probe", e.line.id)
         IN  ReadOn([e EXCEPT !.emitted = Append(@, m),
                              !.ready = Append(@, Callback("probe", "probe", "", m))])
    ELSE ReadOn(e)

\* The read in the executor returns with the lines ks
SerialData(ks) ==
    /\ connected
    /\ read_loop.pc = "read"
    /\ ks # <<>>
    /\ Handled + Len(ks) <= MaxRead
    /\ chunk' = [i \in 1..Len(ks) |-> Line(ks[i], Handled + i, "", <<>>)]
    /\ read_loop' = [read_loop EXCEPT !.pc = "woken"]
    /\ ready' = Append(ready, Wake)
    /\ UNCHANGED <<last_probe, pending, sockets, emitted, ser, read_task, poll_task,
                   tasks, handlers, link, quiet, checkVars>>
    /\ UNCHANGED <<machineVars, macroVars, engineVars, streamVars, wsVars, hubVars,
                   connected, wire, writes, response_queue, getters, callers>>

\* The event loop runs the oldest ready callback
RunCallback ==
    /\ ready # <<>>
    /\ LET cb == Head(ready)
           rest == Tail(ready)
           e == [pc |-> read_loop.pc, line |-> read_loop.line, chunk |-> chunk,
                 ready |-> rest, emitted |-> emitted, pending |-> 0]
           r == IF read_loop.pc = "serial_read" THEN Handle(e) ELSE ReadOn(e)
       IN  CASE cb.op = "send" ->
                  /\ sockets' = IF cb.client \in clients
                                 THEN [sockets EXCEPT ![cb.client] = Append(@, cb.msg)]
                                 ELSE sockets
                  /\ ready' = IF cb.owner = "reader"
                               THEN Append(rest, Callback("done", "reader", "", NoMsg))
                               ELSE rest
                  /\ UNCHANGED <<read_loop, chunk, emitted, pending>>
             [] cb.op = "done" ->
                  /\ pending' = pending - 1
                  /\ ready' = IF pending = 1 THEN Append(rest, Wake) ELSE rest
                  /\ UNCHANGED <<read_loop, chunk, emitted, sockets>>
             [] cb.op = "probe" ->
                  /\ ready' = Gather(rest, "probe", cb.msg)
                  /\ UNCHANGED <<read_loop, chunk, emitted, sockets, pending>>
             [] cb.op = "wake" ->
                  /\ read_loop' = [pc |-> r.pc, line |-> r.line]
                  /\ chunk' = r.chunk
                  /\ ready' = r.ready
                  /\ emitted' = r.emitted
                  /\ pending' = r.pending
                  /\ UNCHANGED sockets
    /\ UNCHANGED <<last_probe, ser, read_task, poll_task, tasks, handlers, link, quiet, checkVars>>
    /\ UNCHANGED <<machineVars, macroVars, engineVars, streamVars, wsVars, hubVars,
                   connected, wire, writes, response_queue, getters, callers>>

NextOrder ==
    \/ \E ks \in SeqsUpTo(LineKinds, MaxChunk) : SerialData(ks)
    \/ RunCallback
    \/ \E c \in Clients \ {Operator} : ClientConnect(c)
    \/ \E c \in Clients \ {Operator} : ClientDisconnect(c)

SpecOrder == InitEngine /\ [][NextOrder]_vars

\* Where a message is in a sequence of messages (0: nowhere)
Place(seq, m) ==
    IF \E i \in 1..Len(seq) : seq[i] = m
    THEN CHOOSE i \in 1..Len(seq) : seq[i] = m
    ELSE 0

\* C27: on every socket the messages are written in the order in which the
\* protocol engine emitted them; so the probe event of line n is written before
\* the serial_read and the status of line n+1.
C27_DeliveredInEmissionOrder ==
    \A c \in Clients :
       \A i, j \in 1..Len(sockets[c]) :
          i < j => Place(emitted, sockets[c][i]) < Place(emitted, sockets[c][j])

\* ------------------------------------------------------------------------
\* The serial link: connect, disconnect, the tasks and the writers
\* ------------------------------------------------------------------------
\* How many times the port is opened, and the bytes after which no further
\* request or poll is taken up
MaxOpens == 2

MaxLink == 3

\* A task made by connect().  kind: "read" (_read_loop) or "poll"
\* (_poll_status); at: "start" (made, its first step scheduled), "executor"
\* (the read loop awaits the read), "sleep" (the poller awaits its sleep),
\* "woken" (its next step is scheduled), "done"; cancel: cancel() was called
\* and the next step raises CancelledError.
NewTask(kind) == [kind |-> kind, at |-> "start", cancel |-> FALSE]

Step(op, who) == [op |-> op, who |-> who]

Alive(ts, kind) == {t \in 1..Len(ts) : ts[t].kind = kind /\ ts[t].at # "done"}

\* The connection and the event loop as one value, for the code that runs
\* from one suspension to the next
Conn ==
    [connected |-> connected, ser |-> ser, read_task |-> read_task,
     poll_task |-> poll_task, tasks |-> tasks, handlers |-> handlers,
     ready |-> Tail(ready), link |-> link, quiet |-> quiet]

\* cmd = line.strip() + '\n'
CommandBytes_Bare(line) == line

CommandBytes(line) == Append(line, "\n")

\* ser.write(data): one call, on the thread of the event loop, that returns
\* when the bytes are written.  w numbers the writes.
SerWrite(e, kind, bytes) ==
    LET w == IF e.link = <<>> THEN 1 ELSE e.link[Len(e.link)].w + 1
    IN  [e EXCEPT !.link = @ \o [i \in 1..Len(bytes) |->
                                    [w |-> w, kind |-> kind, b |-> bytes[i]]]]

\* send_realtime(data)
SendRealtime(e, byte) ==
    IF e.connected /\ e.ser # None THEN SerWrite(e, "realtime", <<byte>>) ELSE e

\* handle_message is done with its message
Served(e, h) == [e EXCEPT !.handlers[h] = IdleHandler]

\* send_command(line) up to its first await; on a closed connection it returns
\* at once and its caller goes on: connect() with $# after $$, and to its end
\* after $#
RECURSIVE SendLine(_, _, _, _)
SendLine(e, h, line, pc) ==
    IF e.connected /\ e.ser # None
    THEN [SerWrite(e, "command", CommandBytes(line)) EXCEPT !.handlers[h].pc = pc,
                                                            !.handlers[h].awaits = 0]
    ELSE IF pc = "cmd1" THEN SendLine(e, h, <<"$", "#">>, "cmd2")
    ELSE Served(e, h)

\* task.cancel(): a task that waits is woken to raise CancelledError; one whose
\* step is already scheduled raises in that step; a finished one is left alone
CancelTask(e, t) ==
    IF e.tasks[t].at = "done" THEN e
    ELSE IF e.tasks[t].at \in {"executor", "sleep"}
    THEN [e EXCEPT !.tasks[t] = [@ EXCEPT !.at = "woken", !.cancel = TRUE],
                   !.ready = Append(@, Step("task", t))]
    ELSE [e EXCEPT !.tasks[t].cancel = TRUE]

\* connect() after its call of disconnect(): the port is opened, the two tasks
\* are made and $$ is sent
Open(e, h) ==
    LET n == Len(e.tasks)
        o == [e EXCEPT !.ser = <<(n \div 2) + 1>>,
                       !.connected = TRUE,
                       !.quiet = FALSE,
                       !.tasks = @ \o <<NewTask("read"), NewTask("poll")>>,
                       !.read_task = <<n + 1>>,
                       !.poll_task = <<n + 2>>,
                       !.ready = @ \o <<Step("task", n + 1), Step("task", n + 2)>>]
    IN  SendLine(o, h, <<"$", "$">>, "cmd1")

\* disconnect() from the point where the port is closed, and its return: to
\* connect(), which goes on, or to handle_message
CloseSer(e, h) ==
    LET c == [e EXCEPT !.ser = None]
    IN  IF e.handlers[h].op = "connect" THEN Open(c, h)
        ELSE Served([c EXCEPT !.quiet = TRUE], h)

\* disconnect() from its test of poll_task; awaiting a finished task does not
\* suspend
StopPoll(e, h) ==
    IF e.poll_task = None THEN CloseSer(e, h)
    ELSE LET t == e.poll_task[1]
             c == CancelTask(e, t)
         IN  IF c.tasks[t].at = "done" THEN CloseSer([c EXCEPT !.poll_task = None], h)
             ELSE [c EXCEPT !.handlers[h].pc = "d_poll", !.handlers[h].awaits = t]

\* disconnect() from its beginning
Disconnect(e, h) ==
    LET d == [e EXCEPT !.connected = FALSE]
    IN  IF d.read_task = None THEN StopPoll(d, h)
        ELSE LET t == d.read_task[1]
                 c == CancelTask(d, t)
             IN  IF c.tasks[t].at = "done" THEN StopPoll([c EXCEPT !.read_task = None], h)
                 ELSE [c EXCEPT !.handlers[h].pc = "d_read", !.handlers[h].awaits = t]

\* handle_message with the message of handler h, up to its first suspension
Serve(e, h) ==
    LET op == e.handlers[h].op
    IN  IF op = "connect" THEN (IF e.connected THEN Disconnect(e, h) ELSE Open(e, h))
        ELSE IF op = "disconnect" THEN Disconnect(e, h)
        ELSE IF op = "realtime" THEN Served(SendRealtime(e, "!"), h)
        ELSE SendLine(e, h, <<"G">>, "cmd")

\* handler h goes on after what it awaited
Continue(e, h) ==
    LET pc == e.handlers[h].pc
    IN  IF pc = "d_read" THEN StopPoll([e EXCEPT !.read_task = None], h)
        ELSE IF pc = "d_poll" THEN CloseSer([e EXCEPT !.poll_task = None], h)
        ELSE IF pc = "cmd1" THEN SendLine(e, h, <<"$", "#">>, "cmd2")
        ELSE Served(e, h)

\* The handlers that await task t, in the order in which they are woken
Waiters(e, t) ==
    SelectSeq(<<"h1", "h2">>,
              LAMBDA h : e.handlers[h].pc \in {"d_read", "d_poll"} /\ e.handlers[h].awaits = t)

\* task t ends, and those who await it are scheduled
Finish(e, t) ==
    [e EXCEPT !.tasks[t].at = "done",
              !.ready = @ \o [i \in 1..Len(Waiters(e, t)) |-> Step("resume", Waiters(e, t)[i])]]

\* One step of task t: _read_loop tests its condition and reads in the
\* executor; _poll_status tests its condition, sends ? and sleeps
RunTask(e, t) ==
    IF e.tasks[t].cancel THEN Finish(e, t)
    ELSE IF e.tasks[t].kind = "read"
    THEN (IF e.connected /\ e.ser # None THEN [e EXCEPT !.tasks[t].at = "executor"]
          ELSE Finish(e, t))
    ELSE (IF e.connected THEN [SendRealtime(e, "?") EXCEPT !.tasks[t].at = "sleep"]
          ELSE Finish(e, t))

\* The opens that the handlers have still to make
OpensDue ==
    Cardinality({h \in Handlers : handlers[h].op = "connect"
                                  /\ handlers[h].pc \in {"arrived", "d_read", "d_poll"}})

Requests == {"connect", "disconnect", "realtime", "gcode"}

\* A client's message arrives and its handler is scheduled
Message(h, op) ==
    /\ handlers[h].pc = "idle"
    /\ op = "connect" => (Len(tasks) \div 2) + OpensDue < MaxOpens
    /\ op \in {"realtime", "gcode"} => Len(link) < MaxLink
    /\ handlers' = [handlers EXCEPT ![h] = [pc |-> "arrived", op |-> op, awaits |-> 0]]
    /\ ready' = Append(ready, Step("handle", h))
    /\ UNCHANGED <<last_probe, chunk, pending, sockets, emitted, ser, read_task,
                   poll_task, tasks, link, quiet, checkVars>>
    /\ UNCHANGED <<machineVars, macroVars, engineVars, streamVars, wsVars, hubVars, protoVars>>

\* send_command is answered, or times out
Answer(h) ==
    /\ handlers[h].pc \in {"cmd1", "cmd2", "cmd"}
    /\ handlers[h].awaits = 0
    /\ handlers' = [handlers EXCEPT ![h].awaits = -1]
    /\ ready' = Append(ready, Step("resume", h))
    /\ UNCHANGED <<last_probe, chunk, pending, sockets, emitted, ser, read_task,
                   poll_task, tasks, link, quiet, checkVars>>
    /\ UNCHANGED <<machineVars, macroVars, engineVars, streamVars, wsVars, hubVars, protoVars>>

\* The read in the executor returns, or the sleep of the poller ends
TaskWakes(t) ==
    /\ tasks[t].at \in {"executor", "sleep"}
    /\ tasks[t].at = "sleep" => Len(link) < MaxLink
    /\ tasks' = [tasks EXCEPT ![t].at = "woken"]
    /\ ready' = Append(ready, Step("task", t))
    /\ UNCHANGED <<last_probe, chunk, pending, sockets, emitted, ser, read_task,
                   poll_task, handlers, link, quiet, checkVars>>
    /\ UNCHANGED <<machineVars, macroVars, engineVars, streamVars, wsVars, hubVars, protoVars>>

\* The event loop runs the oldest ready callback
RunStep ==
    /\ ready # <<>>
    /\ LET cb == Head(ready)
           r == CASE cb.op = "handle" -> Serve(Conn, cb.who)
                  [] cb.op = "resume" -> Continue(Conn, cb.who)
                  [] cb.op = "task" -> RunTask(Conn, cb.who)
       IN  /\ connected' = r.connected
           /\ ser' = r.ser
           /\ read_task' = r.read_task
           /\ poll_task' = r.poll_task
           /\ tasks' = r.tasks
           /\ handlers' = r.handlers
           /\ ready' = r.ready
           /\ link' = r.link
           /\ quiet' = r.quiet
    /\ UNCHANGED <<last_probe, chunk, pending, sockets, emitted, checkVars>>
    /\ UNCHANGED <<machineVars, macroVars, engineVars, streamVars, wsVars, hubVars,
                   wire, writes, response_queue, getters, callers, read_loop>>

NextLink ==
    \/ \E h \in Handlers, op \in Requests : Message(h, op)
    \/ \E h \in Handlers : Answer(h)
    \/ \E t \in 1..Len(tasks) : TaskWakes(t)
    \/ RunStep

SpecLink == Init /\ [][NextLink]_vars

\* C29: when disconnect() returns to handle_message no read or poll task is
\* left, both attributes are cleared and the link is closed; from then until
\* connect() opens the port no byte is written; and there is never more than
\* one read task, nor more than one poll task.
C29_DisconnectStopsTheTasks ==
    [][/\ (\E h \in Handlers : /\ handlers[h].op = "disconnect"
                               /\ handlers[h].pc # "idle"
                               /\ handlers'[h].pc = "idle")
          => /\ Alive(tasks', "read") = {}
             /\ Alive(tasks', "poll") = {}
             /\ read_task' = None
             /\ poll_task' = None
             /\ ser' = None
       /\ (quiet /\ quiet') => link' = link
       /\ Cardinality(Alive(tasks', "read")) <= 1
       /\ Cardinality(Alive(tasks', "poll")) <= 1]_vars

\* C30: the bytes of a command line are contiguous on the link up to and
\* including its newline: a byte of a command that is not the newline is
\* followed by a byte of the same write.
C30_CommandLinesAreContiguous ==
    \A i \in 1..Len(link) :
       (link[i].kind = "command" /\ link[i].b # "\n")
         => /\ i < Len(link)
            /\ link[i + 1].w = link[i].w
            /\ link[i + 1].kind = "command"

\* A command line lies on the link between two realtime bytes of other writers
C30_Witness ==
    \E i, j \in 1..Len(link) :
       /\ i + 1 < j
       /\ link[i].kind = "realtime"
       /\ link[j].kind = "realtime"
       /\ \A k \in (i + 1)..(j - 1) : link[k].kind = "command"
       /\ link[j - 1].b = "\n"

\* ------------------------------------------------------------------------
\* send_command across disconnect()
\* ------------------------------------------------------------------------
\* disconnect(), as the calls of send_command see it: the connection is marked
\* closed and the read task is cancelled; the response queue and the calls
\* suspended on it are left as they are
Hangup ==
    /\ connected
    /\ connected' = FALSE
    /\ read_loop' = [pc |-> "cancelled", line |-> NoLine]
    /\ UNCHANGED <<wire, writes, response_queue, getters, callers>>
    /\ UNCHANGED <<machineVars, macroVars, engineVars, linkVars, streamVars, wsVars, hubVars>>

NextHangup ==
    \/ \E c \in Callers : Connect(c)
    \/ \E c \in Callers : SendCommand(c)
    \/ \E c \in Callers : SerialWriteDone(c)
    \/ \E c \in Callers : QueueGet(c)
    \/ \E c \in Callers : Timeout(c)
    \/ \E line \in NextLines : ReadLine(line)
    \/ AfterSerialRead
    \/ AfterAnnounce
    \/ ProbeBroadcastDone
    \/ \E c \in Clients \ {Operator} : ClientConnect(c)
    \/ \E c \in Clients \ {Operator} : ClientStall(c)
    \/ Hangup

SpecHangup == Init /\ [][NextHangup]_vars

\* The event loop runs every call that can go on, and the timer of wait_for fires
FairSpecHangup ==
    /\ SpecHangup
    /\ \A c \in Callers : /\ WF_vars(SerialWriteDone(c))
                          /\ WF_vars(QueueGet(c))
                          /\ WF_vars(Timeout(c))

\* C28: every call of send_command returns; a call that is in flight when
\* disconnect() is called does too.
C28_SendCommandReturns ==
    \A c \in Callers :
       (callers[c].pc \in {"bcast", "ready", "get"}) ~> (callers[c].pc = "idle")

\* ------------------------------------------------------------------------
\* The macros that change a mode of the controller
\* ------------------------------------------------------------------------
ModeMacros == {"safety_probe_fixture", "probe_z", "probe_x"}

NextModes ==
    \/ \E name \in ModeMacros : MacroRun(name)
    \/ \E t \in Slots : MacroBegin(t)
    \/ \E t \in Slots, o \in WakeOutcomes : MacroWake(t, o)
    \/ MacroCancel

SpecModes == InitEngine /\ [][NextModes]_vars

\* run_macro of task t returns
Ends(t) == macros[t].at # "free" /\ macros'[t].at = "free"

\* C31: when the probe-fixture macro ends, hard limits are enabled ($21=1 was
\* the last $21 command written).
C31_HardLimitsRestored ==
    [][\A t \in Slots : (macros[t].name = "safety_probe_fixture" /\ Ends(t)) => modal'.limits]_vars

\* C40: when a macro ends and no other macro is under way, the controller is
\* in absolute mode (G90 was the last distance mode written).
C40_AbsoluteModeRestored ==
    [][\A t \in Slots :
          (Ends(t) /\ \A u \in Slots \ {t} : macros[u].at = "free") => ~modal'.relative]_vars

\* The run_macro tasks that have begun and not yet returned
Under == {t \in Slots : macros[t].at \notin {"free", "created"}}

\* C38: at most one run_macro is under way at a time, so that no second macro
\* writes its commands between those of the first or sets the engine's
\* attributes anew.
C38_OneMacroAtATime == Cardinality(Under) <= 1

\* ------------------------------------------------------------------------
\* analyze_gcode
\* ------------------------------------------------------------------------
\* The lines of a program under analysis
MaxProg == 3

\* current_f = 1000.0; times are counted in 1/DEFAULT_FEED of a minute
DEFAULT_FEED == 1000

\* A line of G-code: its distance mode word if it has one, its motion word,
\* and its X word if it has one.  Z is for the collision check.
Gcode(mode, g, x, z) == [mode |-> mode, g |-> g, x |-> x, z |-> z]

AnalyzerLines ==
    {Gcode(mode, g, x, <<>>) : mode \in {"", "G90", "G91"}, g \in {"G0", "G1"},
                               x \in {<<>>, <<1>>, <<3>>}}

\* 'G0' in upper, 'G1' in upper: the substring is found in the motion word
\* only (G90 and G91 hold neither)
HasWord(line, w) == line.g = w

\* The loop body of analyze_gcode for one line.  a: is_g1_mode, pos_x, the
\* bounds, total_time and cumulative_time so far.
AnalyzeLine(a, line) ==
    LET g1 == IF HasWord(line, "G1") THEN TRUE
              ELSE IF HasWord(line, "G0") THEN FALSE
              ELSE a.is_g1_mode
        new_x == IF line.x # <<>> THEN line.x[1] ELSE a.pos_x
        distance == Abs(new_x - a.pos_x)
        time == IF (g1 \/ HasWord(line, "G1")) /\ distance > 0
                THEN a.total_time + (distance * DEFAULT_FEED) \div DEFAULT_FEED
                ELSE a.total_time
    IN  [is_g1_mode |-> g1, pos_x |-> new_x,
         min_x |-> Min(a.min_x, new_x), max_x |-> Max(a.max_x, new_x),
         total_time |-> time, cumulative_time |-> Append(a.cumulative_time, time)]

RECURSIVE AnalyzeFrom(_, _)
AnalyzeFrom(a, prog) ==
    IF prog = <<>> THEN a ELSE AnalyzeFrom(AnalyzeLine(a, Head(prog)), Tail(prog))

\* analyze_gcode(lines): what it returns of the times and the bounds
AnalyzeGcode(prog) ==
    LET a == AnalyzeFrom([is_g1_mode |-> FALSE, pos_x |-> 0, min_x |-> 0, max_x |-> 0,
                          total_time |-> 0, cumulative_time |-> <<>>], prog)
    IN  [total_time |-> a.total_time, min_x |-> a.min_x, max_x |-> a.max_x,
         cumulative_time |-> a.cumulative_time]

\* FileStreamer.analyze() on the program prog, once
Analyze(prog) ==
    /\ report = None
    /\ gcode' = prog
    /\ report' = <<AnalyzeGcode(prog)>>
    /\ UNCHANGED <<fixtures, announced>>
    /\ UNCHANGED <<last_probe, chunk, ready, pending, sockets, emitted, ser, read_task,
                   poll_task, tasks, handlers, link, quiet>>
    /\ UNCHANGED <<machineVars, macroVars, engineVars, streamVars, wsVars, hubVars, protoVars>>

NextAnalyze == \E prog \in SeqsUpTo(AnalyzerLines, MaxProg) : Analyze(prog)

SpecAnalyze == Init /\ [][NextAnalyze]_vars

\* The program with the same endpoints written in absolute mode throughout:
\* each X word gives the position the controller moves to.  rel and at are the
\* distance mode and the position before the first line.
RECURSIVE InAbsolute(_, _, _)
InAbsolute(prog, rel, at) ==
    IF prog = <<>> THEN <<>>
    ELSE LET line == Head(prog)
             r == IF line.mode = "G91" THEN TRUE
                  ELSE IF line.mode = "G90" THEN FALSE ELSE rel
             to == IF line.x = <<>> THEN at
                   ELSE IF r THEN at + line.x[1] ELSE line.x[1]
         IN  <<[line EXCEPT !.mode = IF @ = "" THEN "" ELSE "G90",
                            !.x = IF @ = <<>> THEN <<>> ELSE <<to>>]>>
             \o InAbsolute(Tail(prog), r, to)

\* The distance mode words of a program, in order
Modes(prog) == SelectSeq([i \in 1..Len(prog) |-> prog[i].mode], LAMBDA m : m # "")

\* C34: a program that goes from G90 to G91 and back to G90 is analysed to the
\* same bounds and times as the program with the same endpoints in absolute mode.
C34_RelativeModeIsTracked ==
    (report # None /\ Modes(gcode) = <<"G90", "G91", "G90">>)
       => report[1] = AnalyzeGcode(InAbsolute(gcode, FALSE, 0))

\* ------------------------------------------------------------------------
\* check_collisions
\* ------------------------------------------------------------------------
\* A fixture as check_collisions reads it (fixture['x'], ['y'], ['z'],
\* ['radius']) and as safety_probe_fixture stores it ('mx', 'my', 'mz', 'radius')
FixtureRead == [x |-> 5, y |-> 0, z |-> 1, radius |-> 2]

FixtureStored == [mx |-> 5, my |-> 0, mz |-> 1, radius |-> 2]

Registries == {<<>>, <<FixtureRead>>, <<FixtureStored>>}

\* Lines with a distance mode word or none, a motion word, an X and a Z word,
\* written in this order ('G90 G1 X4 Z0'); no line has a Y word
CollideLines ==
    {Gcode(mode, g, <<p[1]>>, <<p[2]>>) :
        mode \in {"", "G90", "G91"}, g \in {"G0", "G1"}, p \in {<<4, 0>>, <<8, 2>>}}

\* re.match(r'G0*1\b', line): the line begins with G1
BeginsWithG1(line) == line.mode = "" /\ line.g = "G1"

\* math.sqrt(dx**2 + dy**2) < radius and current_z <= top, in squares
InCylinder(x, y, z, cx, cy, top, radius) ==
    /\ (x - cx) * (x - cx) + (y - cy) * (y - cy) < radius * radius
    /\ z <= top

\* The loop body of check_collisions for line n.  c: absolute_mode, current_x,
\* current_z, the collisions so far, and whether a subscript has raised KeyError.
CollideLine(c, line, n, fx) ==
    LET absolute == IF line.mode = "G91" THEN FALSE
                    ELSE IF line.mode = "G90" THEN TRUE ELSE c.absolute
        cx == IF absolute THEN line.x[1] ELSE c.x + line.x[1]
        cz == IF absolute THEN line.z[1] ELSE c.z + line.z[1]
        at == [c EXCEPT !.absolute = absolute, !.x = cx, !.z = cz]
        hits == SelectSeq([i \in 1..Len(fx) |-> i],
                          LAMBDA i : InCylinder(cx, 0, cz, fx[i].x, fx[i].y, fx[i].z,
                                                fx[i].radius))
    IN  IF c.raised \/ ~BeginsWithG1(line) THEN at
        ELSE IF \E i \in 1..Len(fx) : "x" \notin DOMAIN fx[i]
        THEN [at EXCEPT !.raised = TRUE]
        ELSE [at EXCEPT !.collisions =
                 @ \o [k \in 1..Len(hits) |->
                          [line |-> n, x |-> cx, z |-> cz, fixture_index |-> hits[k] - 1]]]

RECURSIVE CollideFrom(_, _, _, _)
CollideFrom(c, prog, n, fx) ==
    IF n > Len(prog) THEN c ELSE CollideFrom(CollideLine(c, prog[n], n, fx), prog, n + 1, fx)

\* check_collisions(): the list it returns, or raised when it ends in KeyError
CheckCollisions(prog, fx) ==
    IF prog = <<>> \/ fx = <<>> THEN [raised |-> FALSE, collisions |-> <<>>]
    ELSE LET c == CollideFrom([absolute |-> TRUE, x |-> 0, z |-> 0, raised |-> FALSE,
                               collisions |-> <<>>], prog, 1, fx)
         IN  [raised |-> c.raised, collisions |-> IF c.raised THEN <<>> ELSE c.collisions]

\* The message check_collisions, once: the call, and the reply it is sent in
CheckCollisionsMsg ==
    /\ report = None
    /\ report' = <<CheckCollisions(gcode, fixtures)>>
    /\ UNCHANGED <<fixtures, gcode, announced>>
    /\ UNCHANGED <<last_probe, chunk, ready, pending, sockets, emitted, ser, read_task,
                   poll_task, tasks, handlers, link, quiet>>
    /\ UNCHANGED <<machineVars, macroVars, engineVars, streamVars, wsVars, hubVars, protoVars>>

\* A server with a program loaded, fixtures registered and a work offset cached
InitCollide ==
    /\ status = InitStatus
    /\ wco_cached \in {ZeroPos, Pos(2, 0, 0, 0)}
    /\ InitSettings
    /\ InitStreamer /\ InitConnection /\ InitServer /\ InitMacros
    /\ fixtures \in Registries
    /\ gcode \in SeqsUpTo(CollideLines, MaxProg)
    /\ report = None
    /\ announced = <<>>

SpecCollide == InitCollide /\ [][CheckCollisionsMsg]_vars

\* The cylinder of a fixture, in machine coordinates
Cylinder(f) ==
    IF "mx" \in DOMAIN f THEN [x |-> f.mx, y |-> f.my, top |-> f.mz, radius |-> f.radius]
    ELSE [x |-> f.x, y |-> f.y, top |-> f.z, radius |-> f.radius]

\* The work position after each line of a program that starts in absolute mode
\* at the origin
RECURSIVE WorkPath(_, _, _)
WorkPath(prog, rel, at) ==
    IF prog = <<>> THEN <<>>
    ELSE LET line == Head(prog)
             r == IF line.mode = "G91" THEN TRUE
                  ELSE IF line.mode = "G90" THEN FALSE ELSE rel
             to == [x |-> IF r THEN at.x + line.x[1] ELSE line.x[1],
                    z |-> IF r THEN at.z + line.z[1] ELSE line.z[1]]
         IN  <<to>> \o WorkPath(Tail(prog), r, to)

\* The (line, fixture) pairs where a G1 move ends inside a fixture's cylinder,
\* the work position translated to machine coordinates by the cached offset
InsideFixture(prog, fx, wco) ==
    LET path == WorkPath(prog, FALSE, [x |-> 0, z |-> 0])
    IN  {<<n, i>> \in (1..Len(prog)) \X (1..Len(fx)) :
            /\ prog[n].g = "G1"
            /\ InCylinder(path[n].x + wco.x, wco.y, path[n].z + wco.z,
                          Cylinder(fx[i]).x, Cylinder(fx[i]).y, Cylinder(fx[i]).top,
                          Cylinder(fx[i]).radius)}

\* C32: check_collisions flags a line for a fixture exactly when the line is a
\* G1 move whose point, translated from work to machine coordinates with the
\* cached offset, lies inside the fixture's cylinder.
C32_FlagsExactlyTheMovesInside ==
    report # None =>
        /\ ~report[1].raised
        /\ {<<report[1].collisions[k].line, report[1].collisions[k].fixture_index + 1>> :
               k \in 1..Len(report[1].collisions)}
             = InsideFixture(gcode, fixtures, wco_cached)

\* ------------------------------------------------------------------------
\* The fixture registry
\* ------------------------------------------------------------------------
\* The macros that are to add a fixture
AddMacros == {"safety_add_fixture", "safety_probe_fixture"}

\* The values of msg.get('index', -1)
Indexes == {-1, 0, 1}

\* list.pop(index), 0 <= index < len
Pop(s, index) == [k \in 1..(Len(s) - 1) |-> IF k <= index THEN s[k] ELSE s[k + 1]]

\* The message fixture_remove with index i: the pop, the broadcast of the
\* registry and the log line, which subscripts removed["x"] and raises KeyError
\* for a fixture stored with 'mx'.  report keeps the index and the registry found.
FixtureRemove(i) ==
    /\ report = None
    /\ report' = <<[index |-> i, found |-> fixtures]>>
    /\ IF 0 <= i /\ i < Len(fixtures)
       THEN LET removed == fixtures[i + 1]
                left == Pop(fixtures, i)
            IN  /\ fixtures' = left
                /\ announced' = announced \o <<[type |-> "fixtures", fixtures |-> left]>>
                                  \o (IF "x" \in DOMAIN removed
                                      THEN <<[type |-> "macro_log", fixtures |-> <<>>]>>
                                      ELSE <<>>)
       ELSE UNCHANGED <<fixtures, announced>>
    /\ UNCHANGED gcode
    /\ UNCHANGED <<last_probe, chunk, ready, pending, sockets, emitted, ser, read_task,
                   poll_task, tasks, handlers, link, quiet>>
    /\ UNCHANGED <<machineVars, macroVars, engineVars, streamVars, wsVars, hubVars, protoVars>>

NextFixtures ==
    \/ \E name \in AddMacros : MacroRun(name)
    \/ \E t \in Slots : MacroBegin(t)
    \/ \E t \in Slots, o \in WakeOutcomes : MacroWake(t, o)
    \/ MacroCancel
    \/ \E i \in Indexes : FixtureRemove(i)

SpecFixtures == InitEngine /\ [][NextFixtures]_vars

\* run_macro of an adding macro reports macro_done
Added(t) == macros[t].name \in AddMacros /\ macros[t].at = "report_done" /\ Ends(t)

Dispatched == SelectSeq(SinceStart, IsLineIndex)

\* C35: at most one _stream_loop task is alive, and the program lines handed
\* to send_command since a start was accepted have increasing indices: no line
\* twice, none out of order.
C35_OneLoopInIndexOrder ==
    /\ LiveLoops <= 1
    /\ \A j, k \in 1..Len(Dispatched) : j < k => Dispatched[j] < Dispatched[k]

\* C36: a task takes a line only of the program that was loaded when a start
\* was last accepted: no file has been loaded since that start (load_file
\* leaves no run: run.from is below 0 until the next start is accepted).
C36_DispatchesTheStartedProgram ==
    [][\A i \in LineIndices : DispatchOf(i) => run.from >= 0]_vars

\* C37: from stop() on, until a start is accepted, no task hands a command to
\* send_command and none goes on to the file_done broadcast.
C37_NothingWrittenAfterStop ==
    [][(stop_flag /\ stop_flag') =>
          /\ Len(run'.sent) <= Len(run.sent)
          /\ loops'["file_done"] <= loops["file_done"]]_vars

\* The tasks that wait for send_command to return for a program line
Sending == LET RECURSIVE Sum(_)
               Sum(i) == IF i \notin LineIndices THEN 0
                         ELSE flight["sending"][i] + Sum(i + 1)
           IN  Sum(0)

\* C39: a recovery record written during a run has a cursor that counts the
\* program lines of the run: it is past every line that was sent and answered
\* (none is sent again) and not past any line that was not yet dispatched
\* (none is skipped).
C39_RecoveryCursorCountsDispatched ==
    [][(run.from >= 0 /\ run'.from >= 0 /\ recovery' # recovery) =>
          /\ recovery'.current >= run'.from + Len(Dispatched') - Sending'
          /\ recovery'.current <= run'.from + Len(Dispatched')]_vars

====
